---- MODULE Spec2Model ----
(***************************************************************************)
(* A model of the PDF product extraction scripts:                          *)
(*   - the image classification and layout sort of image.py and of         *)
(*     ImprovedCombinedExtractor.extract_images_from_pdf,                  *)
(*   - the "call LLM, parse fenced JSON, build a products array" code of   *)
(*     the text extractors,                                                *)
(*   - the extraction pipelines, the heuristic text parser of              *)
(*     ocr_organizer.py and StructuredPDFExtractor.save_structured_data.   *)
(* Each part has its own specification (SpecImages, SpecLLM, ...) over the *)
(* variables of that part; the other variables stay at their idle value.   *)
(***************************************************************************)
EXTENDS Integers, Sequences, FiniteSets, TLC

VARIABLES
    page,   \* the page rectangle, in half points: [w, h]
    doc,    \* the images of the document in page order (the input)
    gi,     \* the run of image.py get_images
    ex,     \* the run of ImprovedCombinedExtractor.extract_images_from_pdf
    fence,  \* an LLM answer and the text cut out of it for the JSON parser
    st,     \* one raw text, one LLM answer and what the two
            \* structure_text_to_frontend_format make of them
    pipe,   \* one run of an extraction pipeline
    tx,     \* one run of extract_product_info_from_text
    sv,     \* an OCRExtractionResult, the heap of its image dicts and the
            \* calls of save_structured_data and convert_to_frontend_format
    mn      \* one run of a main function from the command line

imgVars == <<page, doc, gi, ex>>
vars == <<page, doc, gi, ex, fence, st, pipe, tx, sv, mn>>

\* The value of a variable in the specifications that do not use it.
Idle == "idle"

(***************************************************************************)
(* Generic helpers.                                                        *)
(***************************************************************************)
Range(s) == {s[i] : i \in 1..Len(s)}

SeqsUpTo(S, n) == UNION {[1..k -> S] : k \in 0..n}

Abs(v) == IF v >= 0 THEN v ELSE -v

(***************************************************************************)
(* PART 1.  Images.                                                        *)
(* Lengths (bbox coordinates, page sizes) are floats in the code; here     *)
(* they are integers counting half points, so 19 is 9.5 pt.  Pixel sizes   *)
(* (width, height) are integers as in the code.                            *)
(***************************************************************************)
MaxImages == 3

\* int(v) of Python: truncation toward zero, result in whole points.
PyInt(v) == IF v >= 0 THEN v \div 2 ELSE -((-v) \div 2)

Box(wd, ht, x, y) == [width |-> wd, height |-> ht, x0 |-> x, y0 |-> y]

\* Images laid out in the lower-right part of a 600 pt x 800 pt page.
FeatureBoxes ==
    { Box(200, 200, 800, 1040), Box(200, 200, 808, 1020),
      Box(100, 100, 816, 1000), Box(200, 200, 800, 1000),
      Box(200, 200, 808, 1000) }

\* Images near the top or left edge, in the middle of the page, and on the
\* thresholds of the two tests.
OtherBoxes ==
    { Box(200, 200, 10, 1000),     \* x0 = 5
      Box(200, 200, 400, 19),      \* y0 = 9.5
      Box(200, 200, 20, 21),       \* x0 = 10, y0 = 10.5
      Box(200, 200, 400, 600),     \* the middle of the page
      Box(200, 200, 601, 1000) }   \* x0 = 300.5

SmallBoxes == { Box(99, 200, 800, 1000), Box(200, 99, 10, 10) }

Boxes == FeatureBoxes \cup OtherBoxes \cup SmallBoxes

Pages == { [w |-> 1200, h |-> 1600], [w |-> 1618, h |-> 1600] }

\* height < 100 or width < 100
MinImageSide == 100
\* int(bbox.x0) < 10 or int(bbox.y0) < 10
EdgeMargin == 10
\* diff_x0 > 5
ColumnTolerance == 5
\* product_image[10] = ...
ProductSlot == 10

TooSmall(b) == b.height < MinImageSide \/ b.width < MinImageSide

\* int(bbox.x0) > w/2 and int(bbox.y0) > (h/2); PyInt is in points and the
\* page in half points, hence the factor 4.
InFeatureRegion(b, pg) == 4 * PyInt(b.x0) > pg.w /\ 4 * PyInt(b.y0) > pg.h

NearEdge(b) == PyInt(b.x0) < EdgeMargin \/ PyInt(b.y0) < EdgeMargin

(***************************************************************************)
(* A dict is a sequence of [key, img] entries in insertion order with      *)
(* unique keys; img is the position of the image in doc.                   *)
(***************************************************************************)
DictKeys(d) == {d[i].key : i \in 1..Len(d)}

DictSet(d, k, v) ==
    IF k \in DictKeys(d)
    THEN [i \in 1..Len(d) |-> IF d[i].key = k THEN [key |-> k, img |-> v] ELSE d[i]]
    ELSE Append(d, [key |-> k, img |-> v])

RECURSIVE DictUpdate(_, _)
DictUpdate(d, e) ==
    IF e = <<>> THEN d
    ELSE DictUpdate(DictSet(d, Head(e).key, Head(e).img), Tail(e))

DictImgs(d) == {d[i].img : i \in 1..Len(d)}

\* The branch of get_images taken for an image: "skip", "feature", "product"
\* or "none" (no branch: the image is in no dict).
ClassifyGetImages(b, pg) ==
    IF TooSmall(b) THEN "skip"
    ELSE IF InFeatureRegion(b, pg) THEN "feature"
    ELSE IF NearEdge(b) THEN "product"
    ELSE "none"

\* The branch of extract_images_from_pdf: the else branch files the image
\* with the feature images.
ClassifyExtract(b, pg) ==
    IF TooSmall(b) THEN "skip"
    ELSE IF InFeatureRegion(b, pg) THEN "feature"
    ELSE IF NearEdge(b) THEN "product"
    ELSE "feature"

\* A comparator that orders by x0 alone whenever the x0 values differ, with no
\* tolerance (used to show that the ordering claims rest on compare_items).
compare_items_strict(a, b) ==
    IF a.x0 # b.x0
    THEN (IF a.x0 < b.x0 THEN -1 ELSE 1)
    ELSE (IF a.y0 < b.y0 THEN -1 ELSE 1)

\* compare_items(a, b): -1 or 1.
compare_items(a, b) ==
    IF Abs(a.x0 - b.x0) > 2 * ColumnTolerance
    THEN (IF a.x0 < b.x0 THEN -1 ELSE 1)
    ELSE (IF a.y0 < b.y0 THEN -1 ELSE 1)

\* functools.cmp_to_key: K(a) < K(b) iff compare_items(a, b) < 0.  The
\* items are dict entries; d is the document.
ItemLt(d, a, b) == compare_items(d[a.img], d[b.img]) < 0

(***************************************************************************)
(* sorted(): CPython's list.sort on fewer than 64 items is one run found   *)
(* by count_run (reversed when strictly descending) followed by a binary   *)
(* insertion sort of the rest; it only ever asks "x < y".                  *)
(***************************************************************************)
RECURSIVE RunEnd(_, _, _, _)
RunEnd(d, a, i, desc) ==
    IF i >= Len(a) THEN i
    ELSE IF ItemLt(d, a[i + 1], a[i]) = desc THEN RunEnd(d, a, i + 1, desc)
    ELSE i

Reverse(a) == [i \in 1..Len(a) |-> a[Len(a) + 1 - i]]

RECURSIVE BinSearch(_, _, _, _, _)
BinSearch(d, a, pivot, l, r) ==
    IF l >= r THEN l
    ELSE LET p == l + ((r - l) \div 2)
         IN IF ItemLt(d, pivot, a[p]) THEN BinSearch(d, a, pivot, l, p)
            ELSE BinSearch(d, a, pivot, p + 1, r)

InsertAt(a, pos, from) ==
    [i \in 1..Len(a) |->
        IF i < pos \/ i > from THEN a[i]
        ELSE IF i = pos THEN a[from]
        ELSE a[i - 1]]

RECURSIVE BinarySort(_, _, _)
BinarySort(d, a, start) ==
    IF start > Len(a) THEN a
    ELSE BinarySort(d, InsertAt(a, BinSearch(d, a, a[start], 1, start), start),
                    start + 1)

PySorted(d, a) ==
    IF Len(a) < 2 THEN a
    ELSE LET desc == ItemLt(d, a[2], a[1])
             n == RunEnd(d, a, 2, desc)
             run == SubSeq(a, 1, n)
             b == (IF desc THEN Reverse(run) ELSE run) \o SubSeq(a, n + 1, Len(a))
         IN BinarySort(d, b, n + 1)

\* {new_idx: data for new_idx, (_, data) in enumerate(sorted_feature_images)}
Renumber(s) == [i \in 1..Len(s) |-> [key |-> i - 1, img |-> s[i].img]]

(***************************************************************************)
(* The scan loops.  A run's state: image_index, the two dicts, the branch  *)
(* taken per image (cls), and after the loop the sorted items, the         *)
(* renumbered dict and the dict handed to save_images (saved).             *)
(***************************************************************************)
ImgStart ==
    [pc |-> "start", image_index |-> 0, feature_images |-> <<>>,
     product_image |-> <<>>, cls |-> <<>>, sorted |-> <<>>,
     renumbered |-> <<>>, saved |-> <<>>]

\* The key under which get_images stores a product image.
GetImagesProductKey(image_index) == ProductSlot

\* The key under which extract_images_from_pdf stores a product image.
ExtractProductKey(image_index) == image_index

\* One iteration of the loop of get_images on image k.
GetImagesIter(r, d, pg, k) ==
    LET c == ClassifyGetImages(d[k], pg)
        r1 == [r EXCEPT !.cls = Append(@, c)]
    IN  IF c = "skip" THEN r1
        ELSE [r1 EXCEPT
                !.feature_images =
                    IF c = "feature" THEN DictSet(@, r.image_index, k) ELSE @,
                !.product_image =
                    IF c = "product"
                    THEN DictSet(@, GetImagesProductKey(r.image_index), k) ELSE @,
                !.image_index = @ + 1]

\* One iteration of the loop of extract_images_from_pdf on image k.
ExtractIter(r, d, pg, k) ==
    LET c == ClassifyExtract(d[k], pg)
        r1 == [r EXCEPT !.cls = Append(@, c)]
    IN  IF c = "skip" THEN r1
        ELSE [r1 EXCEPT
                !.feature_images =
                    IF c = "feature" THEN DictSet(@, r.image_index, k) ELSE @,
                !.product_image =
                    IF c = "product"
                    THEN DictSet(@, ExtractProductKey(r.image_index), k) ELSE @,
                !.image_index = @ + 1]

RECURSIVE GetImagesScan(_, _, _, _)
GetImagesScan(r, d, pg, k) ==
    IF k > Len(d) THEN r ELSE GetImagesScan(GetImagesIter(r, d, pg, k), d, pg, k + 1)

RECURSIVE ExtractScan(_, _, _, _)
ExtractScan(r, d, pg, k) ==
    IF k > Len(d) THEN r ELSE ExtractScan(ExtractIter(r, d, pg, k), d, pg, k + 1)

\* sorted(...), the renumbering, update(product_image) and the save.
SortAndSave(r, d) ==
    LET s == PySorted(d, r.feature_images)
        ren == Renumber(s)
    IN [r EXCEPT !.pc = "done", !.sorted = s, !.renumbered = ren,
                 !.saved = DictUpdate(ren, r.product_image)]

InitImages ==
    /\ page \in Pages
    /\ doc \in SeqsUpTo(Boxes, MaxImages)
    /\ gi = ImgStart
    /\ ex = ImgStart
    /\ fence = Idle /\ st = Idle /\ pipe = Idle /\ tx = Idle /\ sv = Idle
    /\ mn = Idle

\* get_images(pdf_path)
GetImages ==
    /\ gi.pc = "start"
    /\ gi' = SortAndSave(GetImagesScan(gi, doc, page, 1), doc)
    /\ UNCHANGED <<page, doc, ex, fence, st, pipe, tx, sv, mn>>

\* ImprovedCombinedExtractor.extract_images_from_pdf(pdf_path)
ExtractImagesFromPdf ==
    /\ ex.pc = "start"
    /\ ex' = SortAndSave(ExtractScan(ex, doc, page, 1), doc)
    /\ UNCHANGED <<page, doc, gi, fence, st, pipe, tx, sv, mn>>

NextImages == GetImages \/ ExtractImagesFromPdf

SpecImages == InitImages /\ [][NextImages]_vars

(***************************************************************************)
(* Claims about the images.                                                *)
(***************************************************************************)
ImgRuns == {gi, ex}

\* Whether a comes before b in the claimed layout order.
InLayoutOrder(a, b) ==
    IF Abs(a.x0 - b.x0) > 2 * ColumnTolerance THEN a.x0 < b.x0 ELSE a.y0 <= b.y0

RenumberedBox(r, i) == doc[r.renumbered[i].img]

\* C1: in get_images every image whose width and height are both at least
\* 100 is filed as a feature image or as a product image (never neither).
C1_EveryLargeImageClassified ==
    gi.pc = "done" =>
        \A k \in 1..Len(doc) :
            ~TooSmall(doc[k]) =>
                /\ gi.cls[k] \in {"feature", "product"}
                /\ (k \in DictImgs(gi.feature_images)) # (gi.cls[k] = "product")

C8_SameImagesSaved ==
    (gi.pc = "done" /\ ex.pc = "done") =>
        /\ gi.cls = ex.cls
        /\ Range(gi.saved) = Range(ex.saved)

(***************************************************************************)
(* PART 2.  The LLM answer.                                                *)
(* A text is a sequence of tokens: "tick" is one backtick, "json" the     *)
(* word json, " " white space, "x" any other character, and every other    *)
(* token the text of one JSON document (see JsonValue).  In the comments   *)
(* FENCE stands for three backticks and FENCEjson for three backticks      *)
(* followed by the word json.                                              *)
(***************************************************************************)
MaxContentLen == 9

Fence3 == <<"tick", "tick", "tick">>
FenceJson == <<"tick", "tick", "tick", "json">>

\* s.startswith(m) at position i (1-based)
MatchAt(s, m, i) ==
    /\ i + Len(m) - 1 <= Len(s)
    /\ \A k \in 1..Len(m) : s[i + k - 1] = m[k]

\* s.find(m) from position i on: the first match, left to right; 0 if none.
RECURSIVE PyFind(_, _, _)
PyFind(s, m, i) ==
    IF i + Len(m) - 1 > Len(s) THEN 0
    ELSE IF MatchAt(s, m, i) THEN i
    ELSE PyFind(s, m, i + 1)

\* m in s
PyIn(m, s) == PyFind(s, m, 1) # 0

\* s.split(m): the list of the parts between the matches found left to
\* right, each search starting after the previous match.
RECURSIVE PySplit(_, _)
PySplit(s, m) ==
    LET i == PyFind(s, m, 1)
    IN  IF i = 0 THEN <<s>>
        ELSE <<SubSeq(s, 1, i - 1)>> \o PySplit(SubSeq(s, i + Len(m), Len(s)), m)

RECURSIVE LStrip(_)
LStrip(s) == IF s # <<>> /\ Head(s) = " " THEN LStrip(Tail(s)) ELSE s

RECURSIVE RStrip(_)
RStrip(s) ==
    IF s # <<>> /\ s[Len(s)] = " " THEN RStrip(SubSeq(s, 1, Len(s) - 1)) ELSE s

\* s.strip()
PyStrip(s) == RStrip(LStrip(s))

\* A cut that takes the text before the first marker, parts[0] in Python.
FencedPartBefore(parts) == parts[1]

\* The part of a split the fenced text is taken from: parts[1] in Python.
FencedPart(parts) == parts[2]

\* response_text = content.strip() and the two fence tests
\*   if "FENCEjson" in response_text: ....split("FENCEjson")[1].split("FENCE")[0]
\*   elif "FENCE" in response_text:   ....split("FENCE")[1].split("FENCE")[0]
ExtractJsonText(content) ==
    LET response_text == PyStrip(content)
    IN  IF PyIn(FenceJson, response_text)
        THEN PySplit(FencedPart(PySplit(response_text, FenceJson)), Fence3)[1]
        ELSE IF PyIn(Fence3, response_text)
        THEN PySplit(FencedPart(PySplit(response_text, Fence3)), Fence3)[1]
        ELSE response_text

\* The answers tried: up to MaxContentLen tokens, white space at the ends.
FenceTokens == {"tick", "json", "x"}

Pad == {<<>>, <<" ">>}

InitFence ==
    /\ \E lead \in Pad, trail \in Pad, core \in SeqsUpTo(FenceTokens, MaxContentLen) :
           fence = [pc |-> "answered", content |-> lead \o core \o trail,
                    response_text |-> <<>>]
    /\ page = Idle /\ doc = Idle /\ gi = Idle /\ ex = Idle /\ st = Idle
    /\ pipe = Idle /\ tx = Idle /\ sv = Idle
    /\ mn = Idle

\* Lines 94-98 of enhanced_text_extractor.py (and their copies).
CutFence ==
    /\ fence.pc = "answered"
    /\ fence' = [fence EXCEPT !.pc = "cut",
                              !.response_text = ExtractJsonText(fence.content)]
    /\ UNCHANGED <<imgVars, st, pipe, tx, sv, mn>>

NextFence == CutFence

SpecFence == InitFence /\ [][NextFence]_vars

(***************************************************************************)
(* Claims about the fence.  The claimed text is stated with positions of   *)
(* markers, not with split.                                                *)
(***************************************************************************)
Occurrences(s, m) == {i \in 1..Len(s) : MatchAt(s, m, i)}

Min(S) == CHOOSE v \in S : \A u \in S : v <= u

\* The text of s after the first occurrence of m (m occurs in s).
AfterFirst(s, m) == SubSeq(s, Min(Occurrences(s, m)) + Len(m), Len(s))

\* The text of s before the first occurrence of m, or s when there is none.
UpToNext(s, m) ==
    IF Occurrences(s, m) = {} THEN s ELSE SubSeq(s, 1, Min(Occurrences(s, m)) - 1)

\* C5 as stated.
ClaimedJsonText(content) ==
    LET t == PyStrip(content)
    IN  IF Occurrences(t, FenceJson) # {}
        THEN UpToNext(AfterFirst(t, FenceJson), Fence3)
        ELSE IF Occurrences(t, Fence3) # {}
        THEN UpToNext(AfterFirst(t, Fence3), Fence3)
        ELSE t

\* C5 as amended: behind the first FENCEjson only the text up to the next
\* FENCEjson marker is looked at.
AmendedJsonText(content) ==
    LET t == PyStrip(content)
    IN  IF Occurrences(t, FenceJson) # {}
        THEN UpToNext(UpToNext(AfterFirst(t, FenceJson), FenceJson), Fence3)
        ELSE IF Occurrences(t, Fence3) # {}
        THEN UpToNext(AfterFirst(t, Fence3), Fence3)
        ELSE t

\* C5 (as stated): the text handed to the JSON parser is the text between
\* the first FENCEjson marker and the next FENCE marker (or the end), else the
\* text between the first and the second FENCE marker, else the whole
\* stripped content.
C5_JsonTextAsClaimed ==
    fence.pc = "cut" => fence.response_text = ClaimedJsonText(fence.content)

\* C5 (amended): as stated, except that with a FENCEjson marker the text is
\* the one between the first FENCEjson marker and the next FENCEjson marker
\* (or the end), cut at the first FENCE marker inside it.
C5_JsonTextAmended ==
    fence.pc = "cut" => fence.response_text = AmendedJsonText(fence.content)

\* An answer with a FENCEjson fence, text in it and a closing fence, cut to a
\* non-empty text shorter than the stripped answer.
C5_Witness ==
    /\ fence.pc = "cut"
    /\ PyIn(FenceJson, fence.content)
    /\ fence.response_text # <<>>
    /\ Len(fence.response_text) + Len(FenceJson) + Len(Fence3) <= Len(PyStrip(fence.content))

(***************************************************************************)
(* PART 3.  JSON values and structure_text_to_frontend_format.             *)
(* A JSON value (and a Python value built from it) is a tagged record.     *)
(***************************************************************************)
JNull == [t |-> "null"]
JStr(x) == [t |-> "str", s |-> x]
JList(x) == [t |-> "list", items |-> x]
JObj(x) == [t |-> "obj", f |-> x]

FeatureFields == "name" :> JStr("F") @@ "description" :> JStr("FD")

SpecFields == "label" :> JStr("L") @@ "value" :> JStr("V") @@ "unit" :> JStr("U")

FullFields ==
    "product_name" :> JStr("P") @@ "product_description" :> JStr("D") @@
    "category" :> JStr("C") @@ "brand" :> JStr("B") @@
    "model_number" :> JStr("M") @@
    "features" :> JList(<<JObj(FeatureFields)>>) @@
    "specifications" :> JList(<<JObj(SpecFields)>>)

\* The JSON documents an answer may carry, by the token that stands for
\* their text.
DocTokens ==
    { "obj_full", "obj_rated", "obj_rating_only", "obj_empty", "obj_null_name",
      "obj_bad_spec", "obj_bad_feature", "obj_model_list", "top_list",
      "top_null" }

JsonValue(tok) ==
    CASE tok = "obj_full" -> JObj(FullFields)
      [] tok = "obj_rated" ->
            JObj("rating" :> JStr("3.9") @@ "reviewCount" :> JStr("7") @@ FullFields)
      [] tok = "obj_rating_only" -> JObj("rating" :> JNull @@ FullFields)
      [] tok = "obj_empty" -> JObj(<<>>)
      [] tok = "obj_null_name" -> JObj("product_name" :> JNull @@ FullFields)
      [] tok = "obj_bad_spec" ->
            JObj("specifications" :> JList(<<JObj("label" :> JStr("L"))>>) @@ FullFields)
      [] tok = "obj_bad_feature" ->
            JObj("features" :> JList(<<JObj("description" :> JStr("FD"))>>) @@ FullFields)
      [] tok = "obj_model_list" ->
            JObj("model_number" :> JList(<<JStr("M1"), JStr("M2")>>) @@ FullFields)
      [] tok = "top_list" -> JList(<<JObj(FullFields)>>)
      [] tok = "top_null" -> JNull

\* The exception classes met here; all derive from Exception.
PyExceptions ==
    { "APIError", "ValueError", "JSONDecodeError", "AttributeError", "TypeError",
      "ValidationError" }

\* A handler that catches the parser's errors only.
ExceptValueError(exc) == exc \in {"ValueError", "JSONDecodeError"}

\* except Exception as e
ExceptException(exc) == exc \in PyExceptions

Returned(v) == [exc |-> "none", v |-> v]
Raised(e) == [exc |-> e]

\* json.loads(text): white space around one JSON document.
JsonLoads(text) ==
    LET t == PyStrip(text)
    IN  IF Len(t) = 1 /\ t[1] \in DocTokens
        THEN Returned(JsonValue(t[1]))
        ELSE Raised("JSONDecodeError")

\* structured_data.get(key, default) on a dict
PyGet(d, key, default) == IF key \in DOMAIN d.f THEN d.f[key] ELSE default

(***************************************************************************)
(* An LLM call: it raises, or its message has no content (None), or it     *)
(* has a content.  class and doc say what the answer is (they are not read *)
(* by the code): "raise", "blank", "unparsable", "nonobject" or "object",  *)
(* and the document it carries.                                            *)
(***************************************************************************)
Answer(k, c, cl, d) == [kind |-> k, content |-> c, class |-> cl, doc |-> d]

DocClass(d) == IF JsonValue(d).t = "obj" THEN "object" ELSE "nonobject"

GoodShapes(d) ==
    { <<d>>,
      <<" ", d, " ">>,
      FenceJson \o <<" ", d, " ">> \o Fence3,
      Fence3 \o <<d>> \o Fence3,
      <<"x", " ">> \o FenceJson \o <<d>> \o Fence3 \o <<" ", "x">>,
      FenceJson \o <<d>>,
      FenceJson \o <<d>> \o Fence3 \o FenceJson \o <<"x">> \o Fence3 }

BadShapes(d) ==
    { <<d, d>>,
      <<"x", d>>,
      Fence3 \o <<"x", d>> \o Fence3,
      FenceJson \o <<"x">> \o Fence3 \o <<d>>,
      <<"json", d>> }

Answers ==
    { Answer("raise", <<>>, "raise", "none"), Answer("none", <<>>, "blank", "none"),
      Answer("content", <<>>, "blank", "none"),
      Answer("content", <<" ", " ">>, "blank", "none"),
      Answer("content", <<"x">>, "unparsable", "none") }
    \cup UNION { { Answer("content", c, DocClass(d), d) : c \in GoodShapes(d) } :
                 d \in DocTokens }
    \cup UNION { { Answer("content", c, "unparsable", d) : c \in BadShapes(d) } :
                 d \in DocTokens }

(***************************************************************************)
(* EnhancedTextExtractor.structure_text_to_frontend_format                 *)
(***************************************************************************)
\* The try block up to json.loads: the call, the empty-answer test, the
\* fence cut and the parse.
EnhancedAnswerJson(llm) ==
    IF llm.kind = "raise" THEN Raised("APIError")
    ELSE IF llm.kind = "none" \/ PyStrip(llm.content) = <<>> THEN Raised("ValueError")
    ELSE JsonLoads(ExtractJsonText(llm.content))

\* frontend_data["products"][0] of the try block; sd is a dict.
EnhancedFrontend(sd, raw_text, pdf_name) ==
    [product_name |-> PyGet(sd, "product_name", JStr("")),
     product_description |-> PyGet(sd, "product_description", JStr("")),
     category |-> PyGet(sd, "category", JStr("")),
     brand |-> PyGet(sd, "brand", JStr("")),
     model_number |-> PyGet(sd, "model_number", JStr("")),
     rating |-> JStr("4.5"),
     reviewCount |-> JStr("128"),
     detailedDescription |-> PyGet(sd, "product_description", JStr("")),
     features |-> PyGet(sd, "features", JList(<<>>)),
     specifications |-> PyGet(sd, "specifications", JList(<<>>)),
     mainImage |-> JStr(""),
     thumbnails |-> JList(<<>>),
     raw_text |-> JStr(raw_text),
     extraction_type |-> JStr("text_only"),
     source_pdf |-> JStr(pdf_name)]

\* The product of the except block.
EnhancedFallback(raw_text, pdf_name) ==
    [product_name |-> JStr(""), product_description |-> JStr(""),
     category |-> JStr(""), brand |-> JStr(""), model_number |-> JStr(""),
     rating |-> JStr("4.5"), reviewCount |-> JStr("128"),
     detailedDescription |-> JStr(""),
     features |-> JList(<<>>), specifications |-> JList(<<>>),
     mainImage |-> JStr(""), thumbnails |-> JList(<<>>),
     raw_text |-> JStr(raw_text), extraction_type |-> JStr("text_only"),
     source_pdf |-> JStr(pdf_name)]

\* The handler of the try block of the enhanced extractor.
EnhancedCatches(exc) == ExceptException(exc)

\* The whole function: what it returns, or the exception that leaves it.
\* A .get on a value that is no dict raises AttributeError.
EnhancedStructure(raw_text, pdf_name, llm) ==
    LET a == EnhancedAnswerJson(llm)
        body == IF a.exc # "none" THEN a
                ELSE IF a.v.t # "obj" THEN Raised("AttributeError")
                ELSE Returned([products |-> <<EnhancedFrontend(a.v, raw_text, pdf_name)>>])
    IN  IF body.exc = "none" THEN body
        ELSE IF EnhancedCatches(body.exc)
        THEN Returned([products |-> <<EnhancedFallback(raw_text, pdf_name)>>])
        ELSE body

(***************************************************************************)
(* TextToFrontendConverter.structure_text_to_frontend_format               *)
(***************************************************************************)
ConverterAnswerJson(llm) ==
    IF llm.kind = "raise" THEN Raised("APIError")
    ELSE IF llm.kind = "none" \/ PyStrip(llm.content) = <<>> THEN Raised("ValueError")
    ELSE JsonLoads(ExtractJsonText(llm.content))

\* A converter that leaves detailedDescription empty.
ConverterFrontendNoDetail(sd, raw_text, pdf_name) ==
    [EnhancedFrontend(sd, raw_text, pdf_name) EXCEPT
        !.rating = PyGet(sd, "rating", JStr("4.5")),
        !.reviewCount = PyGet(sd, "reviewCount", JStr("128")),
        !.detailedDescription = JStr("")]

ConverterFrontend(sd, raw_text, pdf_name) ==
    [product_name |-> PyGet(sd, "product_name", JStr("")),
     product_description |-> PyGet(sd, "product_description", JStr("")),
     category |-> PyGet(sd, "category", JStr("")),
     brand |-> PyGet(sd, "brand", JStr("")),
     model_number |-> PyGet(sd, "model_number", JStr("")),
     rating |-> PyGet(sd, "rating", JStr("4.5")),
     reviewCount |-> PyGet(sd, "reviewCount", JStr("128")),
     detailedDescription |-> PyGet(sd, "product_description", JStr("")),
     features |-> PyGet(sd, "features", JList(<<>>)),
     specifications |-> PyGet(sd, "specifications", JList(<<>>)),
     mainImage |-> JStr(""),
     thumbnails |-> JList(<<>>),
     raw_text |-> JStr(raw_text),
     extraction_type |-> JStr("text_only"),
     source_pdf |-> JStr(pdf_name)]

ConverterFallback(raw_text, pdf_name) ==
    [product_name |-> JStr(""), product_description |-> JStr(""),
     category |-> JStr(""), brand |-> JStr(""), model_number |-> JStr(""),
     rating |-> JStr("4.5"), reviewCount |-> JStr("128"),
     detailedDescription |-> JStr(""),
     features |-> JList(<<>>), specifications |-> JList(<<>>),
     mainImage |-> JStr(""), thumbnails |-> JList(<<>>),
     raw_text |-> JStr(raw_text), extraction_type |-> JStr("text_only"),
     source_pdf |-> JStr(pdf_name)]

\* The handler of the try block of the converter.
ConverterCatches(exc) == ExceptException(exc)

ConverterStructure(raw_text, pdf_name, llm) ==
    LET a == ConverterAnswerJson(llm)
        body == IF a.exc # "none" THEN a
                ELSE IF a.v.t # "obj" THEN Raised("AttributeError")
                ELSE Returned([products |-> <<ConverterFrontend(a.v, raw_text, pdf_name)>>])
    IN  IF body.exc = "none" THEN body
        ELSE IF ConverterCatches(body.exc)
        THEN Returned([products |-> <<ConverterFallback(raw_text, pdf_name)>>])
        ELSE body

(***************************************************************************)
(* The specification: one raw text, one pdf name, one LLM answer, and each *)
(* of the two functions called once on them.                               *)
(***************************************************************************)
RawTexts == {"", "Brush cutter BC-26 ..."}

PdfNames == {"unknown", "two"}

Pending == [exc |-> "pending"]

InitLLM ==
    /\ \E rt \in RawTexts, pn \in PdfNames, a \in Answers :
           st = [raw_text |-> rt, pdf_name |-> pn, llm |-> a,
                 enh |-> Pending, conv |-> Pending]
    /\ page = Idle /\ doc = Idle /\ gi = Idle /\ ex = Idle /\ fence = Idle
    /\ pipe = Idle /\ tx = Idle /\ sv = Idle
    /\ mn = Idle

EnhancedStructureText ==
    /\ st.enh = Pending
    /\ st' = [st EXCEPT !.enh = EnhancedStructure(st.raw_text, st.pdf_name, st.llm)]
    /\ UNCHANGED <<imgVars, fence, pipe, tx, sv, mn>>

ConverterStructureText ==
    /\ st.conv = Pending
    /\ st' = [st EXCEPT !.conv = ConverterStructure(st.raw_text, st.pdf_name, st.llm)]
    /\ UNCHANGED <<imgVars, fence, pipe, tx, sv, mn>>

NextLLM == EnhancedStructureText \/ ConverterStructureText

SpecLLM == InitLLM /\ [][NextLLM]_vars

(***************************************************************************)
(* Claims about structure_text_to_frontend_format.                         *)
(***************************************************************************)
\* The fields of the LLM's JSON object, when the answer is one.
AnswerFields == IF st.llm.class = "object" THEN JsonValue(st.llm.doc).f ELSE <<>>

Carried(key, default) ==
    IF key \in DOMAIN AnswerFields THEN AnswerFields[key] ELSE default

\* C4: for the same raw text, pdf name and LLM outcome both functions
\* return the same single-product result, except that the converter takes
\* rating and reviewCount from the LLM's JSON when it carries them.
C4_SameResultButRating ==
    (st.enh # Pending /\ st.conv # Pending) =>
        /\ st.enh.exc = "none" /\ st.conv.exc = "none"
        /\ Len(st.enh.v.products) = 1 /\ Len(st.conv.v.products) = 1
        /\ st.enh.v.products[1].rating = JStr("4.5")
        /\ st.enh.v.products[1].reviewCount = JStr("128")
        /\ st.conv.v.products[1] =
              [st.enh.v.products[1] EXCEPT
                  !.rating = Carried("rating", JStr("4.5")),
                  !.reviewCount = Carried("reviewCount", JStr("128"))]

\* Both have returned on an answer whose JSON object carries a rating, and
\* the results differ.
C4_Witness ==
    /\ st.enh # Pending /\ st.conv # Pending
    /\ "rating" \in DOMAIN AnswerFields
    /\ st.enh.v.products[1].product_name = JStr("P")
    /\ st.conv # st.enh

BadAnswer == st.llm.class \in {"raise", "blank", "unparsable", "nonobject"}

IsClaimedFallback(p) ==
    /\ p.product_name = JStr("") /\ p.product_description = JStr("")
    /\ p.category = JStr("") /\ p.brand = JStr("") /\ p.model_number = JStr("")
    /\ p.detailedDescription = JStr("")
    /\ p.features = JList(<<>>) /\ p.specifications = JList(<<>>)
    /\ p.rating = JStr("4.5") /\ p.reviewCount = JStr("128")
    /\ p.raw_text = JStr(st.raw_text) /\ p.source_pdf = JStr(st.pdf_name)

\* C6: structure_text_to_frontend_format (both) never raises, and when the
\* LLM call raises, answers nothing or white space, or answers text that
\* does not parse to a JSON object, it returns exactly one product, with
\* the empty fields, rating "4.5", reviewCount "128" and the inputs as
\* raw_text and source_pdf.
C6_FallbackOnBadAnswer ==
    \A r \in {st.enh, st.conv} :
        r # Pending =>
            /\ r.exc = "none"
            /\ BadAnswer => (Len(r.v.products) = 1 /\ IsClaimedFallback(r.v.products[1]))

\* Both have returned the fallback on an answer that is valid JSON but no
\* object.
C6_Witness ==
    /\ st.enh # Pending /\ st.conv # Pending
    /\ st.llm.class = "nonobject"
    /\ st.raw_text # ""
    /\ IsClaimedFallback(st.enh.v.products[1])
    /\ IsClaimedFallback(st.conv.v.products[1])

(***************************************************************************)
(* PART 4.  The extraction pipelines.                                      *)
(* An OCR response is [pages]; a page is [markdown, images]; a markdown    *)
(* text is the sequence of its lines and a line a sequence of tokens: a    *)
(* word, " " (one blank) or "\t".  "\n".join of the pages' texts is the    *)
(* concatenation of their lines; the empty text has one empty line.        *)
(***************************************************************************)
Blank == {" ", "\t"}

RECURSIVE LStripWs(_)
LStripWs(s) == IF s # <<>> /\ Head(s) \in Blank THEN LStripWs(Tail(s)) ELSE s

RECURSIVE RStripWs(_)
RStripWs(s) ==
    IF s # <<>> /\ s[Len(s)] \in Blank THEN RStripWs(SubSeq(s, 1, Len(s) - 1)) ELSE s

\* line.strip() on a line of the OCR text
StripWs(s) == RStripWs(LStripWs(s))

\* The string a sequence of tokens spells.
RECURSIVE Text(_)
Text(s) == IF s = <<>> THEN "" ELSE Head(s) \o Text(Tail(s))

NonEmpty(s) == s # <<>>

\* The least element of a non-empty set of integers.
First(S) == CHOOSE i \in S : \A j \in S : i <= j

\* all_text = "\n".join([page.get("markdown", "") for page in pages])
RECURSIVE JoinPages(_)
JoinPages(pages) ==
    IF pages = <<>> THEN <<>> ELSE Head(pages).markdown \o JoinPages(Tail(pages))

AllText(pages) == IF pages = <<>> THEN << <<>> >> ELSE JoinPages(pages)

\* The words, among those the code looks for in lower-cased text, that a
\* token of the OCR vocabulary contains once it is lower-cased.
WordPatterns(tok) ==
    CASE tok = "Brush Cutter" -> {"brush cutter", "brush", "cutter"}
      [] tok = "Cutter" -> {"cutter"}
      [] tok = "Maruyama" -> {"maruyama"}
      [] tok = "engine" -> {"engine"}
      [] tok = "Chain" -> {"chain"}
      [] tok = "Specification" -> {"spec", "specification"}
      [] tok = "Feature" -> {"feature"}
      [] tok = "diagram-2" -> {"diagram"}
      [] OTHER -> {}

\* [col.strip() for col in line.split(sep) if col.strip()]
ColumnsBy(line, sep) ==
    LET parts == PySplit(line, sep)
        cols == SelectSeq([i \in 1..Len(parts) |-> StripWs(parts[i])], NonEmpty)
    IN  [i \in 1..Len(cols) |-> Text(cols[i])]

\* The columns of a line that holds a tab or two blanks: split at the
\* tabs, and at double blanks only when that leaves nothing.
Columns(line) ==
    LET columns == ColumnsBy(line, <<"\t">>)
    IN  IF columns = <<>> THEN ColumnsBy(line, <<" ", " ">>) ELSE columns

\* _classify_table_type: any(word in " ".join(headers).lower() ...)
ClassifyTableType(headers) ==
    LET found == UNION {WordPatterns(headers[i]) : i \in 1..Len(headers)}
    IN  IF found \cap {"spec", "specification", "technical", "dimension"} # {}
        THEN "specifications"
        ELSE IF found \cap {"feature", "benefit", "capability"} # {}
        THEN "features"
        ELSE IF found \cap {"compare", "comparison", "vs"} # {}
        THEN "comparison"
        ELSE "general"

\* One pass of the line loop of extract_tables_structured: the tables and
\* current_table after the line.  cur is current_table: <<>> for None,
\* else <<table>>.
ScanLine(raw_line, tables, cur) ==
    LET line == StripWs(raw_line)
        columns == Columns(line)
    IN  IF line = <<>> THEN [tables |-> tables, cur |-> cur]
        ELSE IF ~(PyIn(<<"\t">>, line) \/ PyIn(<<" ", " ">>, line))
        THEN [tables |-> tables \o cur, cur |-> <<>>]
        ELSE IF Len(columns) < 2 THEN [tables |-> tables, cur |-> cur]
        ELSE IF cur = <<>>
        THEN [tables |-> tables,
              cur |-> <<[headers |-> columns, rows |-> <<>>,
                         table_type |-> ClassifyTableType(columns)]>>]
        ELSE [tables |-> tables,
              cur |-> <<[cur[1] EXCEPT !.rows = Append(@, columns)]>>]

\* The line loop on one page, and the append after it.
RECURSIVE ScanLines(_, _, _)
ScanLines(lines, tables, cur) ==
    IF lines = <<>> THEN tables \o cur
    ELSE LET after == ScanLine(Head(lines), tables, cur)
         IN  ScanLines(Tail(lines), after.tables, after.cur)

\* extract_tables_structured (the same code in TextOnlyPDFExtractor and in
\* StructuredPDFExtractor)
RECURSIVE ExtractTablesStructured(_)
ExtractTablesStructured(pages) ==
    IF pages = <<>> THEN <<>>
    ELSE ScanLines(Head(pages).markdown, <<>>, <<>>)
             \o ExtractTablesStructured(Tail(pages))

(***************************************************************************)
(* The pydantic models.  A field of type str takes a string, a field of    *)
(* type Optional[str] a string or None; a model is built from a mapping   *)
(* (the double-star call of Python).                                       *)
(***************************************************************************)
IsStr(v) == v.t = "str"

OptionalStr(v) == v.t \in {"null", "str"}

\* ProductSpecification from the mapping s: label: str, value: str, unit: Optional[str]
ProductSpecification(s) ==
    IF s.t # "obj" THEN Raised("TypeError")
    ELSE IF /\ "label" \in DOMAIN s.f
            /\ "value" \in DOMAIN s.f
            /\ IsStr(s.f["label"])
            /\ IsStr(s.f["value"])
            /\ OptionalStr(PyGet(s, "unit", JNull))
    THEN Returned([label |-> s.f["label"], value |-> s.f["value"],
                   unit |-> PyGet(s, "unit", JNull)])
    ELSE Raised("ValidationError")

\* ProductFeature from the mapping f: name: str, description, category: Optional[str]
ProductFeature(f) ==
    IF f.t # "obj" THEN Raised("TypeError")
    ELSE IF /\ "name" \in DOMAIN f.f
            /\ IsStr(f.f["name"])
            /\ OptionalStr(PyGet(f, "description", JNull))
            /\ OptionalStr(PyGet(f, "category", JNull))
    THEN Returned([name |-> f.f["name"],
                   description |-> PyGet(f, "description", JNull),
                   category |-> PyGet(f, "category", JNull)])
    ELSE Raised("ValidationError")

\* [f(x) for x in v] for a v that is no list: None is not iterable; an
\* empty string or dict gives nothing; the characters of a string and the
\* keys of a dict are strings, no mappings.
IterateOther(v) ==
    IF v.t = "null" THEN Raised("TypeError")
    ELSE IF v.t = "str" THEN IF v.s = "" THEN Returned(<<>>) ELSE Raised("TypeError")
    ELSE IF DOMAIN v.f = {} THEN Returned(<<>>)
    ELSE Raised("TypeError")

\* The models of a list of outcomes, or the first exception among them.
AllOrFirstRaised(outs) ==
    LET bad == {i \in 1..Len(outs) : outs[i].exc # "none"}
    IN  IF bad = {} THEN Returned([i \in 1..Len(outs) |-> outs[i].v])
        ELSE outs[First(bad)]

\* [ProductSpecification(...) for s in structured_content.get("specifications", [])]
Specifications(v) ==
    IF v.t # "list" THEN IterateOther(v)
    ELSE AllOrFirstRaised([i \in 1..Len(v.items) |-> ProductSpecification(v.items[i])])

\* [ProductFeature(...) for f in structured_content.get("features", [])]
Features(v) ==
    IF v.t # "list" THEN IterateOther(v)
    ELSE AllOrFirstRaised([i \in 1..Len(v.items) |-> ProductFeature(v.items[i])])

\* ", ".join(items) on strings
RECURSIVE JoinStr(_)
JoinStr(items) ==
    IF items = <<>> THEN ""
    ELSE IF Len(items) = 1 THEN items[1].s
    ELSE items[1].s \o ", " \o JoinStr(Tail(items))

\* ", ".join(sc.get("model_number")) if isinstance(..., list) else sc.get(...)
ModelNumber(sc) ==
    LET m == PyGet(sc, "model_number", JNull)
    IN  IF m.t # "list" THEN Returned(m)
        ELSE IF \A i \in 1..Len(m.items) : IsStr(m.items[i])
        THEN Returned(JStr(JoinStr(m.items)))
        ELSE Raised("TypeError")

LongRow(row) == Len(row) >= 2

\* The specifications added from the rows of the tables of type
\* "specifications".
RECURSIVE TableSpecifications(_)
TableSpecifications(tables) ==
    IF tables = <<>> THEN <<>>
    ELSE
        LET table == Head(tables)
            rows == SelectSeq(table.rows, LongRow)
            specs == [i \in 1..Len(rows) |->
                         [label |-> JStr(rows[i][1]), value |-> JStr(rows[i][2]),
                          unit |-> IF Len(rows[i]) > 2 THEN JStr(rows[i][3])
                                   ELSE JNull]]
        IN  (IF table.table_type = "specifications" THEN specs ELSE <<>>)
                \o TableSpecifications(Tail(tables))

\* The validation of the string fields of ProductInfo.
ValidProductInfo(info) ==
    /\ IsStr(info.product_name)
    /\ OptionalStr(info.product_description)
    /\ OptionalStr(info.model_number)
    /\ OptionalStr(info.brand)
    /\ OptionalStr(info.category)

\* The dict the except block of extract_structured_content returns.
EmptyContent ==
    JObj("product_name" :> JStr("") @@ "product_description" :> JStr("") @@
         "model_number" :> JStr("") @@ "brand" :> JStr("") @@
         "category" :> JStr("") @@ "specifications" :> JList(<<>>) @@
         "features" :> JList(<<>>))

(***************************************************************************)
(* TextOnlyPDFExtractor                                                    *)
(***************************************************************************)
\* extract_structured_content: the value json.loads gave, whatever its
\* type, or the empty content when the try block raised.
TextOnlyExtractStructuredContent(llm) ==
    LET a == IF llm.kind = "raise" THEN Raised("APIError")
             ELSE IF llm.kind = "none" \/ PyStrip(llm.content) = <<>>
             THEN Raised("ValueError")
             ELSE JsonLoads(ExtractJsonText(llm.content))
    IN  IF a.exc = "none" THEN a
        ELSE IF ExceptException(a.exc) THEN Returned(EmptyContent)
        ELSE a

\* extract_from_pdf after the OCR and the LLM step: the tables, the models
\* built from structured_content, the result.  No handler is around it.
TextOnlyExtractFromPdf(ocr_response, sc, pdf_path) ==
    LET tables == ExtractTablesStructured(ocr_response.pages)
        all_text == AllText(ocr_response.pages)
    IN  IF sc.t # "obj" THEN Raised("AttributeError")
        ELSE
        LET specs == Specifications(PyGet(sc, "specifications", JList(<<>>)))
            features == Features(PyGet(sc, "features", JList(<<>>)))
            model == ModelNumber(sc)
        IN  IF specs.exc # "none" THEN specs
            ELSE IF features.exc # "none" THEN features
            ELSE IF model.exc # "none" THEN model
            ELSE
            LET info == [product_name |-> PyGet(sc, "product_name", JStr("")),
                         product_description |->
                             PyGet(sc, "product_description", JStr("")),
                         model_number |-> model.v,
                         brand |-> PyGet(sc, "brand", JNull),
                         category |-> PyGet(sc, "category", JNull),
                         specifications |-> specs.v \o TableSpecifications(tables),
                         features |-> features.v,
                         tables |-> tables,
                         raw_text |-> all_text]
            IN  IF ~ValidProductInfo(info) THEN Raised("ValidationError")
                ELSE Returned(
                    [products |-> <<info>>,
                     metadata |-> [source_pdf |-> pdf_path,
                                   total_pages |-> Len(ocr_response.pages),
                                   total_tables |-> Len(tables),
                                   extraction_type |-> "text_only"]])

\* f"{s.value} {s.unit or ''}".strip(), for values and units that have no
\* white space at their ends
FormatValue(s) ==
    IF s.unit.t = "null" THEN s.value
    ELSE IF s.unit.s = "" THEN s.value
    ELSE JStr(s.value.s \o " " \o s.unit.s)

\* f.description or ""
OrEmpty(v) == IF v.t = "null" THEN JStr("") ELSE v

\* TextOnlyPDFExtractor.convert_to_frontend_format
TextOnlyConvertToFrontendFormat(result) ==
    [products |->
        [i \in 1..Len(result.products) |->
            LET product == result.products[i]
            IN  [product_name |-> product.product_name,
                 product_description |-> product.product_description,
                 category |-> product.category,
                 brand |-> product.brand,
                 model_number |-> product.model_number,
                 features |->
                     [k \in 1..Len(product.features) |->
                         [name |-> product.features[k].name,
                          description |-> OrEmpty(product.features[k].description)]],
                 specifications |->
                     [k \in 1..Len(product.specifications) |->
                         [label |-> product.specifications[k].label,
                          value |-> FormatValue(product.specifications[k])]],
                 tables |-> product.tables,
                 raw_text |-> product.raw_text,
                 extraction_type |-> "text_only"]]]

(***************************************************************************)
(* StructuredPDFExtractor                                                  *)
(***************************************************************************)
StructuredExtractStructuredContent(llm) ==
    LET a == IF llm.kind = "raise" THEN Raised("APIError")
             ELSE IF llm.kind = "none" \/ PyStrip(llm.content) = <<>>
             THEN Raised("ValueError")
             ELSE JsonLoads(ExtractJsonText(llm.content))
    IN  IF a.exc = "none" THEN a
        ELSE IF ExceptException(a.exc) THEN Returned(EmptyContent)
        ELSE a

\* f"{n:02d}"
TwoDigits(n) == IF n < 10 THEN "0" \o ToString(n) ELSE ToString(n)

\* base64.b64decode of save_base64_image: the padding must be right.
Base64Decodes(s) == Len(s) % 4 = 0

\* _classify_image_type
ClassifyImageType(image_id, page_number) ==
    LET found == WordPatterns(image_id)
    IN  IF page_number = 1 THEN "product"
        ELSE IF found \cap {"diagram", "schematic", "blueprint"} # {} THEN "diagram"
        ELSE IF found \cap {"chart", "graph", "plot"} # {} THEN "chart"
        ELSE IF found \cap {"logo", "brand"} # {} THEN "logo"
        ELSE IF found \cap {"table", "spec"} # {} THEN "table"
        ELSE "product"

\* One pass of the inner loop of process_images: the ProductImage made
\* of the image, <<>> when it is skipped.  An image without data is
\* skipped, and so is one whose data cannot be decoded (the except block).
ProcessImage(image, page_number, image_counter, run_folder) ==
    LET image_id == IF "id" \in DOMAIN image THEN image["id"]
                    ELSE "img_" \o ToString(image_counter)
        image_filename == "page_" \o TwoDigits(page_number) \o "_image_"
                              \o TwoDigits(image_counter) \o ".jpg"
        base64_data == IF "image_base64" \in DOMAIN image
                       THEN image["image_base64"] ELSE ""
    IN  IF base64_data = "" THEN <<>>
        ELSE IF ~Base64Decodes(base64_data) THEN <<>>
        ELSE <<[id |-> image_id,
                filename |-> image_filename,
                local_path |-> run_folder \o "/" \o image_filename,
                base64_data |-> base64_data,
                page_number |-> page_number,
                size_estimate |-> (Len(base64_data) * 3) \div 4,
                image_type |-> ClassifyImageType(image_id, page_number)]>>

\* The images of all pages, in page order.
RECURSIVE PageImages(_, _)
PageImages(pages, page_idx) ==
    IF page_idx > Len(pages) THEN <<>>
    ELSE [k \in 1..Len(pages[page_idx].images) |->
             [page_number |-> page_idx, image |-> pages[page_idx].images[k]]]
         \o PageImages(pages, page_idx + 1)

\* The two loops of process_images over those images; image_counter
\* starts at 1 and advances with every image kept.
RECURSIVE ProcessImagesFrom(_, _, _)
ProcessImagesFrom(todo, images, run_folder) ==
    IF todo = <<>> THEN images
    ELSE ProcessImagesFrom(Tail(todo),
             images \o ProcessImage(Head(todo).image, Head(todo).page_number,
                                    Len(images) + 1, run_folder),
             run_folder)

ProcessImages(pages, run_folder) ==
    ProcessImagesFrom(PageImages(pages, 1), <<>>, run_folder)

\* extract_from_pdf after the OCR and the LLM step.
StructuredExtractFromPdf(ocr_response, sc, run_folder) ==
    LET images == ProcessImages(ocr_response.pages, run_folder)
        tables == ExtractTablesStructured(ocr_response.pages)
        all_text == AllText(ocr_response.pages)
    IN  IF sc.t # "obj" THEN Raised("AttributeError")
        ELSE
        LET specs == Specifications(PyGet(sc, "specifications", JList(<<>>)))
            features == Features(PyGet(sc, "features", JList(<<>>)))
            model == ModelNumber(sc)
        IN  IF specs.exc # "none" THEN specs
            ELSE IF features.exc # "none" THEN features
            ELSE IF model.exc # "none" THEN model
            ELSE
            LET info == [product_name |-> PyGet(sc, "product_name", JStr("")),
                         product_description |->
                             PyGet(sc, "product_description", JStr("")),
                         model_number |-> model.v,
                         brand |-> PyGet(sc, "brand", JNull),
                         category |-> PyGet(sc, "category", JNull),
                         specifications |-> specs.v \o TableSpecifications(tables),
                         features |-> features.v,
                         tables |-> tables,
                         images |-> images,
                         thumbnail_image |->
                             IF images # <<>> THEN JStr(images[1].local_path)
                             ELSE JNull,
                         rating |-> JStr("4.5"),
                         review_count |-> JStr("128"),
                         raw_text |-> all_text]
            IN  IF ~ValidProductInfo(info) THEN Raised("ValidationError")
                ELSE Returned(
                    [products |-> <<info>>,
                     metadata |-> [total_pages |-> Len(ocr_response.pages),
                                   total_images |-> Len(images),
                                   total_tables |-> Len(tables),
                                   images_folder |-> run_folder]])

(***************************************************************************)
(* ImprovedCombinedExtractor                                               *)
(***************************************************************************)
\* category_patterns, in the order of the dict, each with category.title()
CategoryPatterns ==
    << [category |-> "Brush Cutter",
        patterns |-> {"brush cutter", "brushcutter", "brush-cutter"}],
       [category |-> "Chainsaw", patterns |-> {"chainsaw", "chain saw", "chain-saw"}],
       [category |-> "Lawn Mower", patterns |-> {"lawn mower", "lawnmower", "mower"}],
       [category |-> "Trimmer",
        patterns |-> {"trimmer", "string trimmer", "line trimmer"}],
       [category |-> "Blower", patterns |-> {"blower", "leaf blower", "garden blower"}],
       [category |-> "Hedge Trimmer", patterns |-> {"hedge trimmer", "hedge cutter"}],
       [category |-> "Power Tool", patterns |-> {"power tool", "power equipment"}],
       [category |-> "Garden Tool", patterns |-> {"garden tool", "garden equipment"}],
       [category |-> "Outdoor Equipment",
        patterns |-> {"outdoor equipment", "outdoor power equipment"}],
       [category |-> "Construction Tool",
        patterns |-> {"construction tool", "construction equipment"}],
       [category |-> "Agricultural Equipment",
        patterns |-> {"agricultural", "farm equipment", "farming"}],
       [category |-> "Forestry Equipment",
        patterns |-> {"forestry", "logging equipment"}],
       [category |-> "Landscaping Equipment",
        patterns |-> {"landscaping", "landscape equipment"}] >>

\* The looked-for words a line holds.
LinePatterns(line) == UNION {WordPatterns(line[k]) : k \in 1..Len(line)}

\* detect_category_from_text
DetectCategoryFromText(raw_text) ==
    LET found == UNION {LinePatterns(raw_text[i]) : i \in 1..Len(raw_text)}
        hits == {i \in 1..Len(CategoryPatterns) :
                     CategoryPatterns[i].patterns \cap found # {}}
        brush == {"brush", "cutter"} \cap found # {}
        maruyama == "maruyama" \in found
        engine == {"cc", "engine"} \cap found # {}
    IN  IF hits # {} THEN CategoryPatterns[First(hits)].category
        ELSE IF maruyama /\ brush THEN "Brush Cutter"
        ELSE IF maruyama /\ "chainsaw" \in found THEN "Chainsaw"
        ELSE IF maruyama /\ "blower" \in found THEN "Blower"
        ELSE IF engine /\ brush THEN "Brush Cutter"
        ELSE IF engine /\ "chain" \in found THEN "Chainsaw"
        ELSE "Power Equipment"

\* not v, for a JSON value
PyFalsy(v) ==
    CASE v.t = "null" -> TRUE
      [] v.t = "str" -> v.s = ""
      [] v.t = "list" -> v.items = <<>>
      [] v.t = "obj" -> DOMAIN v.f = {}

\* if "unit" in spec: del spec["unit"], for a spec that is a dict
DelUnit(spec) ==
    IF spec.t = "obj"
    THEN JObj([k \in DOMAIN spec.f \ {"unit"} |-> spec.f[k]])
    ELSE spec

\* The dict of the except block of structure_text_to_json.
CombinedFallback(detected_category) ==
    JObj("product_name" :> JStr("") @@ "product_description" :> JStr("") @@
         "category" :> JStr(detected_category) @@ "brand" :> JStr("") @@
         "model_number" :> JStr("") @@ "features" :> JList(<<>>) @@
         "specifications" :> JList(<<>>))

\* structure_text_to_json: all of it is inside the try block.  The loop
\* over the specifications raises on None and on a None item; items that
\* are no dict are left alone.
StructureTextToJson(raw_text, llm) ==
    LET detected_category == DetectCategoryFromText(raw_text)
        a == IF llm.kind = "raise" THEN Raised("APIError")
             ELSE IF llm.kind = "none" \/ PyStrip(llm.content) = <<>>
             THEN Raised("ValueError")
             ELSE JsonLoads(ExtractJsonText(llm.content))
        body ==
            IF a.exc # "none" THEN a
            ELSE IF a.v.t # "obj" THEN Raised("AttributeError")
            ELSE
                LET sd == IF PyFalsy(PyGet(a.v, "category", JNull))
                          THEN JObj("category" :> JStr(detected_category) @@ a.v.f)
                          ELSE a.v
                    specifications == PyGet(sd, "specifications", JList(<<>>))
                IN  IF specifications.t = "null" THEN Raised("TypeError")
                    ELSE IF specifications.t # "list" THEN Returned(sd)
                    ELSE IF \E i \in 1..Len(specifications.items) :
                                specifications.items[i].t = "null"
                    THEN Raised("TypeError")
                    ELSE Returned(JObj(
                        "specifications" :>
                            JList([i \in 1..Len(specifications.items) |->
                                      DelUnit(specifications.items[i])])
                        @@ sd.f))
    IN  IF body.exc = "none" THEN body
        ELSE IF ExceptException(body.exc)
        THEN Returned(CombinedFallback(detected_category))
        ELSE body

\* combined_data of extract_and_combine
CombinedData(structured_text, image_details, pdf_name) ==
    LET thumbnails_dam == [i \in 1..Len(image_details) |-> image_details[i].local_path]
        thumbnails_base64 ==
            [i \in 1..Len(image_details) |-> image_details[i].base64_data]
    IN  [category |-> <<PyGet(structured_text, "category", JStr(""))>>,
         products |->
            <<[product_name |-> PyGet(structured_text, "product_name", JStr("")),
               product_description |->
                   PyGet(structured_text, "product_description", JStr("")),
               category |-> PyGet(structured_text, "category", JStr("")),
               rating |-> JStr("4.5"),
               reviewCount |-> JStr("128"),
               detailedDescription |-> JStr(""),
               features |-> PyGet(structured_text, "features", JList(<<>>)),
               specifications |->
                   PyGet(structured_text, "specifications", JList(<<>>)),
               mainImage |-> IF thumbnails_dam # <<>> THEN thumbnails_dam[1] ELSE "",
               mainImageBase64 |->
                   IF thumbnails_base64 # <<>> THEN thumbnails_base64[1] ELSE "",
               thumbnails |-> thumbnails_dam,
               thumbnailsBase64 |-> thumbnails_base64,
               images_folder |-> IF image_details # <<>> THEN "dam/" \o pdf_name
                                 ELSE "",
               image_details |-> image_details]>>]

(***************************************************************************)
(* The runs.  A run is one call of                                         *)
(*   "enhanced"    EnhancedTextExtractor.extract_and_structure,            *)
(*   "combined"    ImprovedCombinedExtractor.extract_and_combine,          *)
(*   "text_only"   process_single_pdf_text_only,                           *)
(*   "structured"  StructuredPDFExtractor.extract_from_pdf.                *)
(* The code of each is a straight line of calls; pc is the position in it, *)
(* exc the exception that left the run, trace the steps entered so far,    *)
(* got the steps that have returned.                                       *)
(***************************************************************************)
PipeKinds == {"enhanced", "combined", "text_only", "structured"}

\* A run that writes its JSON output before it asks the LLM.
FlowWriteFirst(kind) ==
    CASE kind = "enhanced" -> <<"ocr", "raw_text", "json", "llm">>
      [] kind = "combined" -> <<"images", "ocr", "json", "llm", "reshape", "raw_text">>
      [] kind = "text_only" ->
            <<"ocr", "save", "llm", "reshape", "convert", "json", "raw_text">>
      [] kind = "structured" -> <<"ocr", "llm", "reshape">>

\* The calls of a run, top to bottom.  In the enhanced run "llm" is
\* structure_text_to_frontend_format, which asks the LLM and reshapes; in
\* the text-only run "save" is save_structured_data and "convert" is
\* convert_to_frontend_format.
Flow(kind) ==
    CASE kind = "enhanced" -> <<"ocr", "raw_text", "llm", "json">>
      [] kind = "combined" -> <<"images", "ocr", "llm", "reshape", "json", "raw_text">>
      [] kind = "text_only" ->
            <<"ocr", "llm", "reshape", "save", "convert", "json", "raw_text">>
      [] kind = "structured" -> <<"ocr", "llm", "reshape">>

\* The call the run is at: "stop" once it has returned or raised.
PipeStep ==
    IF pipe.exc = "none" /\ pipe.pc <= Len(Flow(pipe.kind))
    THEN Flow(pipe.kind)[pipe.pc]
    ELSE "stop"

\* The OCR responses tried.
OcrImage(id, data) == "id" :> id @@ "image_base64" :> data

PageSpec ==
    [markdown |-> << <<"Maruyama", " ", "Cutter">>,
                     <<"Specification", "\t", "Value">>,
                     <<"Weight", "\t", " ", "5", "\t", "kg">>,
                     <<"Power", "\t", "2">>,
                     <<"Width", " ", " ", "3">>,
                     <<"notes">> >>,
     images |-> <<OcrImage("img-0.jpeg", "AAAA"), OcrImage("img-1.jpeg", ""),
                  "image_base64" :> "BBBBBBBB">>]

PagePlain ==
    [markdown |-> << <<"engine", " ", " ", "Chain">>, <<>>, <<"Feature", "\t", "Use">> >>,
     images |-> <<OcrImage("diagram-2", "CCCC"), OcrImage("img-3.jpeg", "DDD")>>]

PageEmpty == [markdown |-> << <<>> >>, images |-> <<>>]

OcrResponses ==
    { [pages |-> <<>>], [pages |-> <<PageEmpty>>], [pages |-> <<PageSpec>>],
      [pages |-> <<PagePlain, PageSpec>>] }

\* What extract_images_from_pdf hands to the combined run.
ImageDetails ==
    { <<>>,
      <<[id |-> "img-0.jpeg", filename |-> "page_01_image_01.jpg",
         local_path |-> "dam/two/page_01_image_01.jpg",
         base64_data |-> "data:image/jpeg;base64,AAAA",
         page_number |-> 1, image_type |-> "feature", size_estimate |-> 3]>> }

PdfStem == "two"

InitPipe ==
    /\ \E kind \in PipeKinds :
           pipe = [kind |-> kind, pc |-> 1, exc |-> "none", trace |-> <<>>,
                   got |-> {}, image_details |-> <<>>,
                   ocr_response |-> [pages |-> <<>>], raw_text |-> << <<>> >>,
                   run_folder |-> "", structured |-> JNull, result |-> JNull,
                   data |-> JNull, files |-> <<>>]
    /\ page = Idle /\ doc = Idle /\ gi = Idle /\ ex = Idle /\ fence = Idle
    /\ st = Idle /\ tx = Idle /\ sv = Idle
    /\ mn = Idle

\* The step returned.
Advance(run, step) == [run EXCEPT !.pc = @ + 1, !.got = @ \cup {step}]

\* extract_images_from_pdf (combined run): fitz.open may raise.
ExtractImages ==
    /\ PipeStep = "images"
    /\ \E ok \in BOOLEAN, details \in ImageDetails :
           LET entered == [pipe EXCEPT !.trace = Append(@, "images")]
           IN  pipe' = IF ok
                       THEN Advance([entered EXCEPT !.image_details = details],
                                    "images")
                       ELSE [entered EXCEPT !.exc = "RuntimeError"]
    /\ UNCHANGED <<imgVars, fence, st, tx, sv, mn>>

\* The OCR request (extract_raw_text, extract_text_with_mistral,
\* process_pdf_with_ocr): it raises, or it returns the pages.  The
\* structured run makes its run folder first.
OcrRequest ==
    /\ PipeStep = "ocr"
    /\ \E ok \in BOOLEAN, response \in OcrResponses :
           LET entered == [pipe EXCEPT
                              !.trace = Append(@, "ocr"),
                              !.run_folder = IF pipe.kind = "structured"
                                             THEN "dam/" \o PdfStem ELSE @]
           IN  pipe' = IF ok
                       THEN Advance([entered EXCEPT
                                        !.ocr_response = response,
                                        !.raw_text = AllText(response.pages)],
                                    "ocr")
                       ELSE [entered EXCEPT !.exc = "APIError"]
    /\ UNCHANGED <<imgVars, fence, st, tx, sv, mn>>

\* The write of <stem>_raw_text.txt
SaveRawText ==
    /\ PipeStep = "raw_text"
    /\ pipe' = Advance([pipe EXCEPT
                           !.trace = Append(@, "raw_text"),
                           !.files = Append(@, [name |-> "raw_text",
                                                content |-> pipe.raw_text])],
                       "raw_text")
    /\ UNCHANGED <<imgVars, fence, st, tx, sv, mn>>

\* What the LLM step of a run returns.
LlmStep(kind, raw_text, llm) ==
    CASE kind = "enhanced" -> EnhancedStructure(raw_text, PdfStem, llm)
      [] kind = "combined" -> StructureTextToJson(raw_text, llm)
      [] kind = "text_only" -> TextOnlyExtractStructuredContent(llm)
      [] kind = "structured" -> StructuredExtractStructuredContent(llm)

\* The LLM request and what the function around it makes of the answer.
LlmRequest ==
    /\ PipeStep = "llm"
    /\ \E llm \in Answers :
           LET out == LlmStep(pipe.kind, pipe.raw_text, llm)
               entered == [pipe EXCEPT
                              !.trace = @ \o (IF pipe.kind = "enhanced"
                                              THEN <<"llm", "reshape">>
                                              ELSE <<"llm">>)]
           IN  pipe' = IF out.exc # "none" THEN [entered EXCEPT !.exc = out.exc]
                       ELSE IF pipe.kind = "enhanced"
                       THEN Advance([entered EXCEPT !.data = out.v], "llm")
                       ELSE Advance([entered EXCEPT !.structured = out.v], "llm")
    /\ UNCHANGED <<imgVars, fence, st, tx, sv, mn>>

\* What the reshaping code of a run returns.
ReshapeStep(run) ==
    CASE run.kind = "combined" ->
            Returned(CombinedData(run.structured, run.image_details, PdfStem))
      [] run.kind = "text_only" ->
            TextOnlyExtractFromPdf(run.ocr_response, run.structured, PdfStem)
      [] run.kind = "structured" ->
            StructuredExtractFromPdf(run.ocr_response, run.structured, run.run_folder)

\* The code between the LLM step and the first write: combined_data, or
\* the rest of extract_from_pdf.
Reshape ==
    /\ PipeStep = "reshape"
    /\ \E out \in {ReshapeStep(pipe)} :
           LET entered == [pipe EXCEPT !.trace = Append(@, "reshape")]
           IN  pipe' = IF out.exc # "none" THEN [entered EXCEPT !.exc = out.exc]
                       ELSE IF pipe.kind = "combined"
                       THEN Advance([entered EXCEPT !.data = out.v], "reshape")
                       ELSE Advance([entered EXCEPT !.result = out.v], "reshape")
    /\ UNCHANGED <<imgVars, fence, st, tx, sv, mn>>

\* TextOnlyPDFExtractor.save_structured_data: json.dump(result.model_dump())
TextOnlySaveStructuredData ==
    /\ PipeStep = "save"
    /\ pipe' = Advance([pipe EXCEPT
                           !.trace = Append(@, "json"),
                           !.files = Append(@, [name |-> "text_structured.json",
                                                content |-> pipe.result])],
                       "save")
    /\ UNCHANGED <<imgVars, fence, st, tx, sv, mn>>

\* frontend_data = extractor.convert_to_frontend_format(result)
ConvertToFrontend ==
    /\ PipeStep = "convert"
    /\ pipe' = Advance([pipe EXCEPT
                           !.trace = Append(@, "reshape"),
                           !.data = TextOnlyConvertToFrontendFormat(pipe.result)],
                       "convert")
    /\ UNCHANGED <<imgVars, fence, st, tx, sv, mn>>

\* json.dump of the frontend or combined data
WriteJson ==
    /\ PipeStep = "json"
    /\ pipe' = Advance([pipe EXCEPT
                           !.trace = Append(@, "json"),
                           !.files = Append(@, [name |-> "frontend.json",
                                                content |-> pipe.data])],
                       "json")
    /\ UNCHANGED <<imgVars, fence, st, tx, sv, mn>>

NextPipe ==
    \/ ExtractImages
    \/ OcrRequest
    \/ SaveRawText
    \/ LlmRequest
    \/ Reshape
    \/ TextOnlySaveStructuredData
    \/ ConvertToFrontend
    \/ WriteJson

SpecPipe == InitPipe /\ [][NextPipe]_vars

(***************************************************************************)
(* Claims about the runs.                                                  *)
(***************************************************************************)
ClaimedSteps == {"ocr", "llm", "reshape", "json"}

IsClaimedStep(e) == e \in ClaimedSteps

\* The OCR, LLM, reshape and JSON-write steps entered so far, in order.
StepsTaken == SelectSeq(pipe.trace, IsClaimedStep)

IsPrefix(s, t) == Len(s) <= Len(t) /\ s = SubSeq(t, 1, Len(s))

\* The three pipelines (extract_from_pdf alone is not one of them).
ClaimedRuns == {"enhanced", "combined", "text_only"}

\* C3 (as stated): in every pipeline run each of the steps OCR request, LLM
\* request, reshape, JSON write runs at most once and in that order, so the
\* steps taken so far are always an initial part of that sequence.
C3_EachStepOnceInOrder ==
    pipe.kind \in ClaimedRuns =>
        IsPrefix(StepsTaken, <<"ocr", "llm", "reshape", "json">>)

\* C3 (amended): the steps taken so far are an initial part of OCR, LLM,
\* reshape, JSON write, which process_single_pdf_text_only follows with a
\* second reshape and a second JSON write; the LLM is asked only after the
\* OCR request has returned and a JSON file is written only after the LLM
\* step has returned; the OCR and the LLM request are made at most once.
C3_LinearRun ==
    pipe.kind \in ClaimedRuns =>
        /\ IsPrefix(StepsTaken,
                    IF pipe.kind = "text_only"
                    THEN <<"ocr", "llm", "reshape", "json", "reshape", "json">>
                    ELSE <<"ocr", "llm", "reshape", "json">>)
        /\ "llm" \in Range(pipe.trace) => "ocr" \in pipe.got
        /\ "json" \in Range(pipe.trace) => "llm" \in pipe.got

\* A text-only run that went through all its steps: two reshapes, two
\* JSON files and the raw text.
C3_Witness ==
    /\ pipe.kind = "text_only"
    /\ pipe.exc = "none"
    /\ StepsTaken = <<"ocr", "llm", "reshape", "json", "reshape", "json">>
    /\ Len(pipe.files) = 3

ExtractFromPdfRuns == {"text_only", "structured"}

\* C7: once the OCR step has succeeded, extract_from_pdf of the text-only
\* and of the structured extractor does not raise, whatever the LLM step
\* does, and the result it returns has exactly one product.
C7_BadAnswerNeverCrashes ==
    (pipe.kind \in ExtractFromPdfRuns /\ "ocr" \in pipe.got) =>
        /\ pipe.exc = "none"
        /\ "reshape" \in pipe.got => Len(pipe.result.products) = 1


(***************************************************************************)
(* PART 5.  ocr_organizer.extract_product_info_from_text.                  *)
(* A text is the sequence of its lines and a line a sequence of tokens: a  *)
(* word (a run of letters and digits, written as the string itself), or    *)
(* one punctuation character, or one blank.  The only words that hold      *)
(* "model" or "brand" are the words Model and Brand themselves.  The       *)
(* strings of the record are kept as token sequences.  log_info, which the *)
(* module imports from logger but logger.py does not define, is taken to   *)
(* log and return.                                                         *)
(***************************************************************************)
MaxLines == 3
MaxPaddedLines == 2
MaxLongLines == 4

MaxFairLines == 3

\* if i < 50
FeatureScanLimit == 50

\* len(line.strip()) > 10 of the fallback product name
MinNameLen == 10

\* len(line.strip()) > 20 of the fallback description
MinDescriptionLen == 20

\* len(description_lines) >= 3
MaxDescriptionLines == 3

Punct == {" ", "\t", "#", "*", ":", "|", "-", ".", "!", "[", "]", "(", ")"}

DigitWords == {"5", "26", "12345678901"}

\* The character classes of the patterns, token by token.
InClass(cls, t) ==
    CASE cls = "name" -> t \notin Punct \/ t = "-"           \* [A-Za-z0-9\-]
      [] cls = "boldname" -> t \notin {"*", " ", "\t"}        \* [^\*\s]
      [] cls = "sep" -> t \in {":", " ", "\t"}                \* [:\s]
      [] cls = "word" -> t \notin Punct                       \* \w
      [] cls = "speckey" ->                                   \* [A-Za-z\s]
            (t \notin Punct /\ t \notin DigitWords) \/ t \in Blank
      [] cls = "space" -> t \in Blank                         \* \s
      [] cls = "nonstar" -> t # "*"                           \* [^\*]
      [] cls = "kvkey" -> t \notin Punct \/ t \in {".", " ", "\t"}  \* [A-Za-z0-9.\s]

\* The last position of the longest run of tokens of a class that starts
\* at position from; from - 1 when there is none.
RECURSIVE SpanEnd(_, _, _)
SpanEnd(line, from, cls) ==
    IF from <= Len(line) /\ InClass(cls, line[from])
    THEN SpanEnd(line, from + 1, cls)
    ELSE from - 1

Stars == <<"*", "*">>

NoMatch == [ok |-> FALSE, g1 |-> <<>>, g2 |-> <<>>]

Match(a, b) == [ok |-> TRUE, g1 |-> a, g2 |-> b]

\* len(s) of the string a token sequence spells
RECURSIVE LineLen(_)
LineLen(s) == IF s = <<>> THEN 0 ELSE Len(Head(s)) + LineLen(Tail(s))

\* re.sub(r'!\[.*?\]\(.*?\)', '', text) on one line ('.' stops at the end
\* of a line): the tags are found left to right; a tag starts at "![",
\* runs to the first "](" and ends at the first ")" after it.
RECURSIVE RemoveImageTags(_)
RemoveImageTags(line) ==
    LET j == PyFind(line, <<"]", "(">>, 3)
        k == IF j = 0 THEN 0 ELSE PyFind(line, <<")">>, j + 2)
    IN  IF line = <<>> THEN <<>>
        ELSE IF MatchAt(line, <<"!", "[">>, 1) /\ k # 0
        THEN RemoveImageTags(SubSeq(line, k + 1, Len(line)))
        ELSE <<Head(line)>> \o RemoveImageTags(Tail(line))

\* re.match(r'^\|.*\|$', line)
IsTableLine(line) == Len(line) >= 2 /\ line[1] = "|" /\ line[Len(line)] = "|"

\* re.search(r'\*\*([^\*\s]+)(?=\s)', line): the leftmost "**" followed by
\* a run without star and blank that ends at a blank.
BoldNameAt(line, p) ==
    /\ MatchAt(line, Stars, p)
    /\ SpanEnd(line, p + 2, "boldname") >= p + 2
    /\ SpanEnd(line, p + 2, "boldname") < Len(line)
    /\ line[SpanEnd(line, p + 2, "boldname") + 1] \in Blank

BoldName(line) ==
    LET P == {p \in 1..Len(line) : BoldNameAt(line, p)}
    IN  IF P = {} THEN NoMatch
        ELSE Match(SubSeq(line, First(P) + 2, SpanEnd(line, First(P) + 2, "boldname")),
                   <<>>)

\* re.match(r'^([A-Za-z0-9\-]+)', line)
FirstToken(line) ==
    IF SpanEnd(line, 1, "name") >= 1
    THEN Match(SubSeq(line, 1, SpanEnd(line, 1, "name")), <<>>)
    ELSE NoMatch

\* re.search(word + r'[:\s]+(' + cls + '+)', line, re.IGNORECASE): the
\* leftmost word followed by colons and blanks and a run of the class.
LabelledAt(line, p, words, cls) ==
    /\ line[p] \in words
    /\ SpanEnd(line, p + 1, "sep") >= p + 1
    /\ SpanEnd(line, SpanEnd(line, p + 1, "sep") + 1, cls)
           >= SpanEnd(line, p + 1, "sep") + 1

Labelled(line, words, cls) ==
    LET P == {p \in 1..Len(line) : LabelledAt(line, p, words, cls)}
        s == SpanEnd(line, First(P) + 1, "sep")
    IN  IF P = {} THEN NoMatch
        ELSE Match(SubSeq(line, s + 1, SpanEnd(line, s + 1, cls)), <<>>)

\* re.search(r'Model[:\s]+([A-Z0-9\-]+)', line, re.IGNORECASE)
ModelMatch(line) == Labelled(line, {"Model", "model", "MODEL"}, "name")

\* re.search(r'Brand[:\s]+(\w+)', line, re.IGNORECASE)
BrandMatch(line) == Labelled(line, {"Brand", "brand", "BRAND"}, "word")

\* re.match(r'^([A-Za-z\s]+):\s*(.+)$', line), with the two strips
SpecMatch(line) ==
    LET e == SpanEnd(line, 1, "speckey")
        s == SpanEnd(line, e + 2, "space")
    IN  IF e >= 1 /\ e < Len(line) /\ line[e + 1] = ":" /\ s < Len(line)
        THEN Match(StripWs(SubSeq(line, 1, e)),
                   StripWs(SubSeq(line, s + 1, Len(line))))
        ELSE NoMatch

\* re.match(r'\*\*([^\*]+)\*\*\s*(.*)', line), with the two strips
FeatureMd(line) ==
    LET e == SpanEnd(line, 3, "nonstar")
    IN  IF MatchAt(line, Stars, 1) /\ e >= 3 /\ MatchAt(line, Stars, e + 1)
        THEN Match(StripWs(SubSeq(line, 3, e)),
                   StripWs(SubSeq(line, e + 3, Len(line))))
        ELSE NoMatch

\* re.match(r'^([A-Za-z0-9.\s]+?)\s*[:\-]\s*(.*)$', line), with the two
\* strips: the key ends before the first colon or dash.
FeatureKv(line) ==
    LET e == SpanEnd(line, 1, "kvkey")
    IN  IF e >= 1 /\ e < Len(line) /\ line[e + 1] \in {":", "-"}
        THEN Match(StripWs(SubSeq(line, 1, e)),
                   StripWs(SubSeq(line, e + 2, Len(line))))
        ELSE NoMatch

\* not any(x in next_line for x in [":", "**", "|"])
HasNoMark(line) ==
    /\ ":" \notin Range(line)
    /\ ~PyIn(Stars, line)
    /\ "|" \notin Range(line)

\* re.search(r'\*\*(.+?)\*\*', line), with the strip: the leftmost "**"
\* that has a later "**" at least one character on, up to the nearest one.
DescMatch(line) ==
    LET P == {p \in 1..Len(line) :
                 MatchAt(line, Stars, p) /\ PyFind(line, Stars, p + 3) # 0}
    IN  IF P = {} THEN NoMatch
        ELSE Match(StripWs(SubSeq(line, First(P) + 2,
                                  PyFind(line, Stars, First(P) + 3) - 1)),
                   <<>>)

\* product_info["specifications"][key] = value on a dict kept as the list
\* of its items in insertion order
SetItem(items, key, value) ==
    IF \E n \in 1..Len(items) : items[n].key = key
    THEN [n \in 1..Len(items) |->
             IF items[n].key = key THEN [key |-> key, value |-> value] ELSE items[n]]
    ELSE Append(items, [key |-> key, value |-> value])

\* A header rule that overwrites a description already found.
DescriptionAlwaysUnset(info) == TRUE

\* not product_info["product_description"]
DescriptionUnset(info) == info.product_description = <<>>

\* The value of a feature whose own line gives none: the stripped next
\* line when there is one and it is not blank (and, for a KEY: line, has
\* no mark), in which case the next line is used up.
\* An advance that leaps over the line after the value.
AdvancedLeaping(took_next) == IF took_next THEN 3 ELSE 1

\* The advance of i in a feature rule: i += 1 when the next line was taken
\* as the value (lines 98, 113), and the i += 1 before the continue.
Advanced(took_next) == IF took_next THEN 2 ELSE 1

\* A name rule that fires whatever name was found before.
NameAlwaysUnset(info) == TRUE

\* not product_info["product_name"]
NameUnset(info) == info.product_name = <<>>

TakesNext(lines, i, value, plain) ==
    /\ value = <<>>
    /\ i + 1 < Len(lines)
    /\ StripWs(lines[i + 2]) # <<>>
    /\ plain => HasNoMark(StripWs(lines[i + 2]))

\* One pass of the while loop, lines 46-133; i counts from 0, so the
\* current line is lines[i + 1] here.  branch names the way taken and
\* reached collects the lines that come to the header rule.
LoopIteration(s) ==
    LET lines == s.lines
        i == s.i
        line == StripWs(lines[i + 1])
        info == s.info
        bold_match == BoldName(line)
        tok_match == FirstToken(line)
        model_match == ModelMatch(line)
        brand_match == BrandMatch(line)
        spec_match == SpecMatch(line)
        feature_md == FeatureMd(line)
        feature_kv == FeatureKv(line)
        desc_match == DescMatch(line)
        named == [info EXCEPT
                    !.product_name =
                        IF NameUnset(info) /\ tok_match.ok THEN tok_match.g1 ELSE @,
                    !.model_number = IF model_match.ok THEN model_match.g1 ELSE @,
                    !.brand = IF brand_match.ok THEN brand_match.g1 ELSE @,
                    !.specifications =
                        IF spec_match.ok THEN SetItem(@, spec_match.g1, spec_match.g2)
                        ELSE @]
        md_next == TakesNext(lines, i, feature_md.g2, FALSE)
        kv_next == TakesNext(lines, i, feature_kv.g2, TRUE)
    IN  IF line = <<>> THEN [s EXCEPT !.i = i + 1, !.branch = "blank"]
        ELSE IF IsTableLine(line) THEN [s EXCEPT !.i = i + 1, !.branch = "table"]
        ELSE IF NameUnset(info) /\ bold_match.ok
        THEN [s EXCEPT !.i = i + 1, !.branch = "bold_name",
                       !.info.product_name = bold_match.g1]
        ELSE IF i < FeatureScanLimit /\ feature_md.ok
        THEN [s EXCEPT
                !.i = i + Advanced(md_next),
                !.branch = "feature_md",
                !.info = [named EXCEPT
                            !.features =
                                Append(@, [key |-> feature_md.g1,
                                           value |-> IF md_next
                                                     THEN StripWs(lines[i + 2])
                                                     ELSE feature_md.g2])]]
        ELSE IF i < FeatureScanLimit /\ feature_kv.ok
        THEN [s EXCEPT
                !.i = i + Advanced(kv_next),
                !.branch = "feature_kv",
                !.info = [named EXCEPT
                            !.features =
                                Append(@, [key |-> feature_kv.g1,
                                           value |-> IF kv_next
                                                     THEN StripWs(lines[i + 2])
                                                     ELSE feature_kv.g2])]]
        ELSE IF TakesNext(lines, i, <<>>, TRUE)
        THEN [s EXCEPT
                !.i = i + 2,
                !.branch = "next_line",
                !.info = [named EXCEPT
                            !.features =
                                Append(@, [key |-> line,
                                           value |-> StripWs(lines[i + 2])])]]
        ELSE [s EXCEPT
                !.i = i + 1,
                !.branch = "fall_through",
                !.reached = Append(@, i),
                !.info = [named EXCEPT
                            !.product_description =
                                IF /\ DescriptionUnset(named)
                                   /\ "#" \in Range(line)
                                   /\ PyIn(Stars, line)
                                   /\ desc_match.ok
                                THEN desc_match.g1
                                ELSE @]]

\* line.strip().isdigit()
IsDigit(line) == line # <<>> /\ \A n \in 1..Len(line) : line[n] \in DigitWords

\* The fallback product name, lines 136-140.
FallbackName(lines) ==
    LET K == {n \in 1..Len(lines) :
                 /\ LineLen(StripWs(lines[n])) > MinNameLen
                 /\ ~IsDigit(StripWs(lines[n]))}
    IN  IF K = {} THEN <<>> ELSE StripWs(lines[First(K)])

\* The loop of lines 145-149: description_lines after the lines from n on.
RECURSIVE DescriptionLines(_, _, _)
DescriptionLines(lines, n, found) ==
    IF n > Len(lines) THEN found
    ELSE
        LET after == IF LineLen(StripWs(lines[n])) > MinDescriptionLen
                     THEN Append(found, StripWs(lines[n]))
                     ELSE found
        IN  IF Len(after) >= MaxDescriptionLines THEN after
            ELSE DescriptionLines(lines, n + 1, after)

\* " ".join(parts)
RECURSIVE JoinBlank(_)
JoinBlank(parts) ==
    IF parts = <<>> THEN <<>>
    ELSE IF Len(parts) = 1 THEN parts[1]
    ELSE parts[1] \o <<" ">> \o JoinBlank(Tail(parts))

\* The names assigned by one pass of the loop (lines 60 and 68), and by
\* the fallback after it (line 139).
NameAssigned(s) ==
    LET line == StripWs(s.lines[s.i + 1])
    IN  IF line = <<>> \/ IsTableLine(line) \/ ~NameUnset(s.info) THEN <<>>
        ELSE IF BoldName(line).ok THEN <<BoldName(line).g1>>
        ELSE IF FirstToken(line).ok THEN <<FirstToken(line).g1>>
        ELSE <<>>

FallbackAssigned(s) ==
    IF NameUnset(s.info) /\ FallbackName(s.lines) # <<>>
    THEN <<FallbackName(s.lines)>> ELSE <<>>

\* The two fallbacks after the loop, lines 135-150.
Fallbacks(s) ==
    [s EXCEPT
        !.pc = "done",
        !.info = [@ EXCEPT
                    !.product_name =
                        IF NameUnset(s.info) /\ FallbackName(s.lines) # <<>>
                        THEN FallbackName(s.lines) ELSE @,
                    !.product_description =
                        IF @ = <<>>
                        THEN JoinBlank(DescriptionLines(s.lines, 1, <<>>))
                        ELSE @]]

(***************************************************************************)
(* The texts tried: all texts of up to MaxLines lines of TextLines; texts  *)
(* of up to MaxPaddedLines such lines after 49 blank lines, which puts the *)
(* lines on both sides of the limit of the feature rules; and texts of up  *)
(* to MaxLongLines lines around the length limit of the description.       *)
(***************************************************************************)
LongLine == <<"Powerfulandlightweight", " ", "cutter">>

TextLines ==
    { <<>>,
      <<" ", "#", " ", "*", "*", "b", "*", "*">>,
      <<"#", " ", "*", "*", "a">>,
      <<"#", " ", "*", "*", " ", "*", "*">>,
      <<"#", "*", "*", "Great", " ", "tool", "*", "*">>,
      LongLine,
      <<"x">>,
      <<"|", " ", "Weightofthemachine", " ", "|", " ", "5", "|">>,
      <<"*", "*", "Key", "*", "*">>,
      <<"Model", ":", " ", "BC", "-", "26">>,
      <<"Use", ":">>,
      <<"!", "[", "a", "]", "(", "b", ")">>,
      <<"12345678901">>,
      <<"model", " ", "X9", " ", "Brand", " ", "Best">>,
      <<"Brand", ":", " ", "Acme">>,
      <<"*", "*", "Pro", " ", "Model", " ", "Z1">> }

LongLines ==
    { LongLine,
      <<"Anotherlonglineofwords", " ", "#">>,
      <<"Nineteencharacters1", " ", " ">>,
      <<>> }

BlankLines(n) == [k \in 1..n |-> <<>>]

SeqsFrom(S, lo, hi) == UNION {[1..k -> S] : k \in lo..hi}

Texts ==
    SeqsFrom(TextLines, 1, MaxLines)
    \cup {BlankLines(FeatureScanLimit - 1) \o t :
              t \in SeqsFrom(TextLines, 1, MaxPaddedLines)}
    \cup SeqsFrom(LongLines, 1, MaxLongLines)

EmptyInfo ==
    [product_name |-> <<>>, product_description |-> <<>>, specifications |-> <<>>,
     features |-> <<>>, model_number |-> <<>>, brand |-> <<>>]

InitText ==
    /\ \E text \in Texts :
           tx = [pc |-> "called", text |-> text, lines |-> <<>>, i |-> 0,
                 info |-> EmptyInfo, branch |-> "none", reached |-> <<>>,
                 visits |-> <<>>, names |-> <<>>]
    /\ page = Idle /\ doc = Idle /\ gi = Idle /\ ex = Idle /\ fence = Idle
    /\ st = Idle /\ pipe = Idle /\ sv = Idle
    /\ mn = Idle

\* Lines 31-44: the image tags are removed, the text is split.
StartParse ==
    /\ tx.pc = "called"
    /\ tx' = [tx EXCEPT
                !.pc = "loop",
                !.lines = [n \in 1..Len(tx.text) |-> RemoveImageTags(tx.text[n])]]
    /\ UNCHANGED <<imgVars, fence, st, pipe, sv, mn>>

\* while i < len(lines): one pass.  visits keeps the index and the branch
\* of every pass, names every value assigned to product_name.
ParseLine ==
    /\ tx.pc = "loop"
    /\ tx.i < Len(tx.lines)
    /\ tx' = [LoopIteration(tx) EXCEPT
                !.visits = Append(@, [i |-> tx.i,
                                      branch |-> LoopIteration(tx).branch]),
                !.names = @ \o NameAssigned(tx)]
    /\ UNCHANGED <<imgVars, fence, st, pipe, sv, mn>>

\* The loop is left, the fallbacks are applied and the record is returned.
FinishParse ==
    /\ tx.pc = "loop"
    /\ tx.i >= Len(tx.lines)
    /\ tx' = [Fallbacks(tx) EXCEPT !.names = @ \o FallbackAssigned(tx)]
    /\ UNCHANGED <<imgVars, fence, st, pipe, sv, mn>>

NextText == StartParse \/ ParseLine \/ FinishParse

SpecText == InitText /\ [][NextText]_vars

\* The texts of the runs followed to their end: up to MaxFairLines lines,
\* with a line for every branch of the loop.
FairLines ==
    { <<>>,
      <<"x">>,
      <<"|", " ", "Weightofthemachine", " ", "|", " ", "5", "|">>,
      <<"*", "*", "Key", "*", "*">>,
      <<"Use", ":">>,
      <<"*", "*", "Pro", " ", "Model", " ", "Z1">> }

InitTextFair ==
    /\ \E text \in SeqsFrom(FairLines, 1, MaxFairLines) :
           tx = [pc |-> "called", text |-> text, lines |-> <<>>, i |-> 0,
                 info |-> EmptyInfo, branch |-> "none", reached |-> <<>>,
                 visits |-> <<>>, names |-> <<>>]
    /\ page = Idle /\ doc = Idle /\ gi = Idle /\ ex = Idle /\ fence = Idle
    /\ st = Idle /\ pipe = Idle /\ sv = Idle
    /\ mn = Idle

\* The function runs on: a pass of the loop or the code after it is
\* always taken when there is one.
SpecTextFair == InitTextFair /\ [][NextText]_vars /\ WF_vars(NextText)

(***************************************************************************)
(* Claims about extract_product_info_from_text.                            *)
(***************************************************************************)
\* A line that contains both '#' and '**'.
IsHeader(line) == "#" \in Range(line) /\ PyIn(Stars, line)

\* The bold spans of a line: a "**" and a later "**" with at least one
\* character between them.
BoldSpans(line) ==
    {pq \in (1..Len(line)) \X (1..Len(line)) :
        /\ pq[2] >= pq[1] + 3
        /\ MatchAt(line, Stars, pq[1])
        /\ MatchAt(line, Stars, pq[2])}

\* The stripped text of the first bold span of a line, the shortest one
\* that starts there; empty when the line has no bold span.
BoldText(line) ==
    LET first == CHOOSE x \in BoldSpans(line) :
                     \A y \in BoldSpans(line) :
                         x[1] < y[1] \/ (x[1] = y[1] /\ x[2] <= y[2])
    IN  IF BoldSpans(line) = {} THEN <<>>
        ELSE StripWs(SubSeq(line, first[1] + 2, first[2] - 1))

\* The k-th line that came to the header rule, stripped.
ReachedLine(k) == StripWs(tx.lines[tx.reached[k] + 1])

\* The first up to three lines whose stripped length exceeds 20, joined
\* by single blanks.
ClaimedFallbackDescription ==
    LET long == {n \in 1..Len(tx.lines) :
                    LineLen(StripWs(tx.lines[n])) > MinDescriptionLen}
        rank(n) == Cardinality({m \in long : m < n})
        kept == {n \in long : rank(n) < MaxDescriptionLines}
    IN  JoinBlank([k \in 1..Cardinality(kept) |->
                      StripWs(tx.lines[CHOOSE n \in kept : rank(n) = k - 1])])

\* C9 (as stated): the product_description is the bold text of the first
\* line that came to the header rule and contains both '#' and '**'; when
\* no such line set it, it is the first up to three long lines joined by
\* single blanks.
C9_DescriptionOfFirstHeader ==
    tx.pc = "done" =>
        LET headers == {k \in 1..Len(tx.reached) : IsHeader(ReachedLine(k))}
        IN  tx.info.product_description =
                IF headers # {} /\ BoldText(ReachedLine(First(headers))) # <<>>
                THEN BoldText(ReachedLine(First(headers)))
                ELSE ClaimedFallbackDescription

\* C9 (amended): the product_description is the bold text of the first
\* line that came to the header rule, contains '#' and has a bold span
\* whose stripped text is not empty; when there is no such line, it is the
\* first up to three long lines joined by single blanks.
C9_DescriptionOfFirstBoldHeader ==
    tx.pc = "done" =>
        LET headers == {k \in 1..Len(tx.reached) :
                           /\ IsHeader(ReachedLine(k))
                           /\ BoldText(ReachedLine(k)) # <<>>}
        IN  tx.info.product_description =
                IF headers # {} THEN BoldText(ReachedLine(First(headers)))
                ELSE ClaimedFallbackDescription

\* A returned record whose description comes from a header that follows
\* an earlier header without bold text.
C9_Witness ==
    /\ tx.pc = "done"
    /\ tx.info.product_description # <<>>
    /\ \E k \in 1..Len(tx.reached) : \E n \in 1..Len(tx.reached) :
           /\ k < n
           /\ IsHeader(ReachedLine(k))
           /\ BoldText(ReachedLine(k)) = <<>>
           /\ IsHeader(ReachedLine(n))
           /\ tx.info.product_description = BoldText(ReachedLine(n))


(***************************************************************************)
(* Part 6.  StructuredPDFExtractor: saving and converting a result         *)
(* (src/ocr_processor.py).                                                 *)
(*                                                                         *)
(* The ProductImage objects of an OCRExtractionResult are kept in a heap,  *)
(* a function from object identities to the fields of the object, and the  *)
(* result names them by identity: what a call does to an object it was     *)
(* handed is then seen by everybody who holds that object.  A path is the  *)
(* pair of its directory and its file name.                                *)
(***************************************************************************)
MaxCalls == 2

\* create_run_folder: f"dam/{pdf_stem}"
RunFolder == "dam/" \o PdfStem

PyNone == [t |-> "null"]

Path(dir, name) == [t |-> "path", dir |-> dir, name |-> name]

\* The answers of the LLM the extraction is tried with.
ExtractedContents == {"obj_full", "obj_empty", "obj_null_name"}

\* The output_path arguments tried: left out, a file in a directory, a bare
\* file name.
OutputPaths(name) == {PyNone, Path("out", name), Path("", name)}

\* The identities of the images of a result, or of its dump.
ImageIds(result) ==
    UNION {Range(result.products[p].images) : p \in 1..Len(result.products)}

\* The result, or a dump of it, with every image identity replaced by the
\* fields of the object: what json.dump writes and what a reader sees.
Deref(heap, result) ==
    [products |->
        [p \in 1..Len(result.products) |->
            [result.products[p] EXCEPT
                !.images = [k \in 1..Len(result.products[p].images) |->
                               heap[result.products[p].images[k]]]]],
     metadata |-> result.metadata]

\* A result whose images are the very objects of the result dumped.
ModelDumpShared(heap, result) == [heap |-> heap, dict |-> result]

\* result.model_dump(): pydantic builds new dicts and lists all the way
\* down, so every ProductImage becomes a dict of its own with the same
\* fields.  The identities in use are 1..n.
ModelDump(heap, result) ==
    LET n == Cardinality(DOMAIN heap)
    IN  [heap |-> [id \in DOMAIN heap \cup {n + i : i \in ImageIds(result)} |->
                      IF id \in DOMAIN heap THEN heap[id] ELSE heap[id - n]],
         dict |-> [products |->
                      [p \in 1..Len(result.products) |->
                          [result.products[p] EXCEPT
                              !.images =
                                  [k \in 1..Len(result.products[p].images) |->
                                      n + result.products[p].images[k]]]],
                   metadata |-> result.metadata]]

\* The loops deleting image["base64_data"] from the images of the dump.
DelBase64Data(heap, result_dict) ==
    [id \in DOMAIN heap |->
        IF id \in ImageIds(result_dict) /\ "base64_data" \in DOMAIN heap[id]
        THEN [f \in DOMAIN heap[id] \ {"base64_data"} |-> heap[id][f]]
        ELSE heap[id]]

\* What is left of the heap when only the result is still held.
Collect(heap, result) == [id \in ImageIds(result) |-> heap[id]]

\* output_path, or the default in the folder of the run.
OutputPath(output_path, current_run_folder, name) ==
    IF output_path = PyNone THEN Path(current_run_folder, name) ELSE output_path

\* os.makedirs(os.path.dirname(output_path), exist_ok=True): the empty
\* directory name of a bare file name is refused.
MakeDirs(path) == IF path.dir = "" THEN Raised("FileNotFoundError") ELSE Returned(path)

\* save_structured_data, folder being self.current_run_folder: the
\* exception, the heap after the call, the path and the document written.
StructuredSaveStructuredData(heap, result, folder, output_path, include_base64) ==
    LET path == OutputPath(output_path, folder, "structured_data.json")
        made == MakeDirs(path)
        dump == ModelDump(heap, result)
        after == IF ~include_base64 THEN DelBase64Data(dump.heap, dump.dict)
                 ELSE dump.heap
    IN  IF made.exc # "none"
        THEN [exc |-> made.exc, heap |-> heap, written |-> <<>>]
        ELSE [exc |-> "none", heap |-> Collect(after, result),
              written |-> <<[path |-> path, content |-> Deref(after, dump.dict)]>>]

\* A filter that keeps every image.
KeepsEveryImage(img) == TRUE

\* if img.local_path: neither None nor the empty string
HasLocalPath(img) == img.local_path # ""

LocalPathOf(imgs) == [k \in 1..Len(imgs) |-> imgs[k].local_path]

\* product_data of one product
ProductData(product, imgs, use_paths, current_run_folder) ==
    LET image_paths == LocalPathOf(SelectSeq(imgs, HasLocalPath))
        thumbnails == IF use_paths THEN image_paths
                      ELSE [k \in 1..Len(imgs) |-> imgs[k].base64_data]
        main_image == IF thumbnails # <<>> THEN thumbnails[1] ELSE ""
        product_data ==
            [product_name |-> product.product_name,
             product_description |-> product.product_description,
             category |-> product.category,
             rating |-> product.rating,
             reviewCount |-> product.review_count,
             detailedDescription |-> product.product_description,
             features |->
                 [k \in 1..Len(product.features) |->
                     [name |-> product.features[k].name,
                      description |-> OrEmpty(product.features[k].description)]],
             specifications |->
                 [k \in 1..Len(product.specifications) |->
                     [label |-> product.specifications[k].label,
                      value |-> FormatValue(product.specifications[k])]],
             mainImage |-> main_image,
             thumbnails |-> thumbnails,
             images_folder |-> current_run_folder]
    IN  IF use_paths
        THEN [image_details |->
                 [k \in 1..Len(imgs) |->
                     [id |-> imgs[k].id,
                      filename |-> imgs[k].filename,
                      local_path |-> imgs[k].local_path,
                      page_number |-> imgs[k].page_number,
                      image_type |-> imgs[k].image_type,
                      size_estimate |-> imgs[k].size_estimate]]] @@ product_data
        ELSE product_data

\* convert_to_frontend_format: img.base64_data of an object without that
\* field raises.
StructuredConvertToFrontendFormat(heap, result, use_paths, current_run_folder) ==
    IF ~use_paths /\ \E id \in ImageIds(result) : "base64_data" \notin DOMAIN heap[id]
    THEN Raised("AttributeError")
    ELSE Returned(
        [products |->
            [p \in 1..Len(result.products) |->
                ProductData(result.products[p],
                            Deref(heap, result).products[p].images,
                            use_paths, current_run_folder)]])

\* save_frontend_format, folder being self.current_run_folder
StructuredSaveFrontendFormat(heap, result, folder, output_path, use_paths) ==
    LET path == OutputPath(output_path, folder, "frontend_data.json")
        made == MakeDirs(path)
        frontend_data == StructuredConvertToFrontendFormat(heap, result, use_paths,
                                                           folder)
    IN  IF made.exc # "none" THEN [exc |-> made.exc, written |-> <<>>]
        ELSE IF frontend_data.exc # "none"
        THEN [exc |-> frontend_data.exc, written |-> <<>>]
        ELSE [exc |-> "none",
              written |-> <<[path |-> path, content |-> frontend_data.v]>>]

\* The extractor after __init__: current_run_folder is None and no result
\* has been made.
InitSave ==
    /\ sv = [pc |-> "new", current_run_folder |-> "", heap |-> <<>>,
             result |-> [products |-> <<>>, metadata |-> <<>>],
             files |-> <<>>, calls |-> 0, saved |-> FALSE,
             last |-> [op |-> "init", exc |-> "none"]]
    /\ page = Idle /\ doc = Idle /\ gi = Idle /\ ex = Idle /\ fence = Idle
    /\ st = Idle /\ pipe = Idle /\ tx = Idle /\ mn = Idle

\* extract_from_pdf: the images of the result are new objects.
ExtractFromPdf ==
    /\ sv.pc = "new"
    /\ \E ocr_response \in OcrResponses, tok \in ExtractedContents :
         \E out \in {StructuredExtractFromPdf(ocr_response, JsonValue(tok), RunFolder)} :
           sv' = IF out.exc # "none"
                 THEN [sv EXCEPT !.pc = "failed", !.current_run_folder = RunFolder,
                                 !.last = [op |-> "extract_from_pdf",
                                           exc |-> out.exc]]
                 ELSE [sv EXCEPT
                          !.pc = "ready",
                          !.current_run_folder = RunFolder,
                          !.heap = [id \in 1..Len(out.v.products[1].images) |->
                                       out.v.products[1].images[id]],
                          !.result =
                              [products |->
                                  <<[out.v.products[1] EXCEPT
                                        !.images = [k \in 1..Len(@) |-> k]]>>,
                               metadata |-> out.v.metadata],
                          !.last = [op |-> "extract_from_pdf", exc |-> "none"]]
    /\ UNCHANGED <<imgVars, fence, st, pipe, tx, mn>>

\* save_structured_data(result, output_path, include_base64)
SaveStructuredData ==
    /\ sv.pc = "ready" /\ sv.calls < MaxCalls
    /\ \E output_path \in OutputPaths("structured_data.json"),
          include_base64 \in BOOLEAN :
         \E out \in {StructuredSaveStructuredData(sv.heap, sv.result,
                         sv.current_run_folder, output_path, include_base64)} :
           sv' = [sv EXCEPT
                     !.calls = @ + 1,
                     !.heap = out.heap,
                     !.files = @ \o out.written,
                     !.saved = @ \/ (out.exc = "none" /\ ~include_base64),
                     !.last = [op |-> "save_structured_data", exc |-> out.exc,
                               include_base64 |-> include_base64,
                               before |-> Deref(sv.heap, sv.result)]]
    /\ UNCHANGED <<imgVars, fence, st, pipe, tx, mn>>

\* convert_to_frontend_format(result, use_paths)
ConvertToFrontendFormat ==
    /\ sv.pc = "ready" /\ sv.calls < MaxCalls
    /\ \E use_paths \in BOOLEAN :
         \E out \in {StructuredConvertToFrontendFormat(sv.heap, sv.result, use_paths,
                                                       sv.current_run_folder)} :
           sv' = [sv EXCEPT
                     !.calls = @ + 1,
                     !.last = [op |-> "convert_to_frontend_format",
                               exc |-> out.exc, use_paths |-> use_paths,
                               out |-> out]]
    /\ UNCHANGED <<imgVars, fence, st, pipe, tx, mn>>

\* save_frontend_format(result, output_path, use_paths)
SaveFrontendFormat ==
    /\ sv.pc = "ready" /\ sv.calls < MaxCalls
    /\ \E output_path \in OutputPaths("frontend_data.json"), use_paths \in BOOLEAN :
         \E out \in {StructuredSaveFrontendFormat(sv.heap, sv.result,
                         sv.current_run_folder, output_path, use_paths)} :
           sv' = [sv EXCEPT
                     !.calls = @ + 1,
                     !.files = @ \o out.written,
                     !.last = [op |-> "save_frontend_format", exc |-> out.exc,
                               use_paths |-> use_paths]]
    /\ UNCHANGED <<imgVars, fence, st, pipe, tx, mn>>

NextSave ==
    \/ ExtractFromPdf
    \/ SaveStructuredData
    \/ ConvertToFrontendFormat
    \/ SaveFrontendFormat

SpecSave == InitSave /\ [][NextSave]_vars

(***************************************************************************)
(* Claims about saving.                                                    *)
(***************************************************************************)
\* The images of the products of a document or of a dereferenced result.
AllImages(d) ==
    UNION {Range(d.products[p].images) : p \in 1..Len(d.products)}

\* The base64 data of the images of the products, in image order.
Base64Thumbnails(d) ==
    [p \in 1..Len(d.products) |->
        [k \in 1..Len(d.products[p].images) |->
            d.products[p].images[k].base64_data]]

SavedWithoutBase64 ==
    /\ sv.last.op = "save_structured_data"
    /\ ~sv.last.include_base64

ConvertedToBase64 ==
    /\ sv.last.op = "convert_to_frontend_format"
    /\ ~sv.last.use_paths

\* C10: save_structured_data with include_base64=False writes a document
\* in which no image of any product has a base64_data field, and the
\* result in memory is after the call what it was before it, every image
\* still with its base64_data; a convert_to_frontend_format with
\* use_paths=False made after such a save returns, and its thumbnails are
\* the base64 data of the images of the result.
C10_SaveLeavesResultUntouched ==
    /\ SavedWithoutBase64 =>
           /\ Deref(sv.heap, sv.result) = sv.last.before
           /\ \A img \in AllImages(Deref(sv.heap, sv.result)) :
                  "base64_data" \in DOMAIN img
           /\ sv.last.exc = "none" =>
                  /\ sv.files # <<>>
                  /\ \A img \in AllImages(sv.files[Len(sv.files)].content) :
                         "base64_data" \notin DOMAIN img
                  /\ Len(sv.files[Len(sv.files)].content.products)
                         = Len(sv.result.products)
                  /\ \A p \in 1..Len(sv.result.products) :
                         Len(sv.files[Len(sv.files)].content.products[p].images)
                             = Len(sv.result.products[p].images)
    /\ (sv.saved /\ ConvertedToBase64) =>
           /\ sv.last.exc = "none"
           /\ \A p \in 1..Len(sv.result.products) :
                  sv.last.out.v.products[p].thumbnails
                      = Base64Thumbnails(Deref(sv.heap, sv.result))[p]

\* A result with images was saved without base64 data, and a conversion
\* made after it has returned base64 thumbnails.
C10_Witness ==
    /\ sv.saved
    /\ ConvertedToBase64
    /\ sv.last.exc = "none"
    /\ sv.result.products # <<>>
    /\ Len(sv.result.products[1].images) >= 2
    /\ sv.last.out.v.products[1].thumbnails # <<>>
    /\ sv.files # <<>>

(***************************************************************************)
(* Part 7.  convert_to_frontend_format as a function of its arguments      *)
(* (src/ocr_processor.py lines 369-424).                                   *)
(*                                                                         *)
(* The method takes any OCRExtractionResult: a result may have no product  *)
(* or several, and a ProductImage may have no local_path (the field is     *)
(* Optional and defaults to None).  A local_path of "" stands here for    *)
(* both None and the empty string: the code treats them alike in the       *)
(* filter and copies them as they are into image_details.                  *)
(***************************************************************************)
ProductImage(id, local_path, base64_data, page_number) ==
    [id |-> id, filename |-> id \o ".jpg", local_path |-> local_path,
     base64_data |-> base64_data, page_number |-> page_number,
     size_estimate |-> (Len(base64_data) * 3) \div 4, image_type |-> "product"]

ImageA == ProductImage("a", "dam/two/a.jpg", "AAAA", 1)

ImageB == ProductImage("b", "", "BBBBBBBB", 1)

ImageC == ProductImage("c", "dam/two/c.jpg", "CCCC", 2)

\* The image lists of the products tried.
ImageLists ==
    { <<>>, <<ImageA>>, <<ImageB>>, <<ImageB, ImageA>>, <<ImageA, ImageB, ImageC>>,
      <<ImageB, ImageB>> }

\* A ProductInfo with the images of the given identities.
ProductInfo(images) ==
    [product_name |-> JStr("P"), product_description |-> JStr("D"),
     model_number |-> JNull, brand |-> JNull, category |-> JStr("C"),
     specifications |-> <<[label |-> JStr("L"), value |-> JStr("V"),
                           unit |-> JStr("U")]>>,
     features |-> <<[name |-> JStr("F"), description |-> JNull]>>,
     tables |-> <<>>, images |-> images, thumbnail_image |-> JNull,
     rating |-> JStr("4.5"), review_count |-> JStr("128"), raw_text |-> <<>>]

\* The lists of image lists tried, one image list per product.
ProductLists ==
    {<<>>} \cup {<<a>> : a \in ImageLists}
           \cup {<<a, b>> : a \in ImageLists, b \in ImageLists}

\* The identities of the images of product p: the objects are numbered
\* product after product.
RECURSIVE IdsBefore(_, _)
IdsBefore(lists, p) ==
    IF p = 1 THEN 0 ELSE IdsBefore(lists, p - 1) + Len(lists[p - 1])

\* The heap holding the images of the lists.
HeapOf(lists) ==
    LET total == IdsBefore(lists, Len(lists) + 1)
        owner(id) == CHOOSE p \in 1..Len(lists) :
                         /\ IdsBefore(lists, p) < id
                         /\ id <= IdsBefore(lists, p) + Len(lists[p])
    IN  [id \in 1..total |-> lists[owner(id)][id - IdsBefore(lists, owner(id))]]

\* The OCRExtractionResult with these products.
ResultOf(lists) ==
    [products |-> [p \in 1..Len(lists) |->
                      ProductInfo([k \in 1..Len(lists[p]) |->
                                      IdsBefore(lists, p) + k])],
     metadata |-> [total_pages |-> 2]]

\* An extractor that has or has not made a run folder, and a result.
InitConvert ==
    /\ \E lists \in ProductLists, folder \in {"", RunFolder} :
           sv = [pc |-> "ready", current_run_folder |-> folder,
                 heap |-> HeapOf(lists), result |-> ResultOf(lists),
                 files |-> <<>>, calls |-> 0, saved |-> FALSE,
                 last |-> [op |-> "init", exc |-> "none"]]
    /\ page = Idle /\ doc = Idle /\ gi = Idle /\ ex = Idle /\ fence = Idle
    /\ st = Idle /\ pipe = Idle /\ tx = Idle /\ mn = Idle

NextConvert ==
    \/ ConvertToFrontendFormat
    \/ SaveFrontendFormat

SpecConvert == InitConvert /\ [][NextConvert]_vars

(***************************************************************************)
(* Claims about the conversion.                                            *)
(***************************************************************************)
\* The local paths of the images that have one, in image order.
RECURSIVE PathsInOrder(_)
PathsInOrder(imgs) ==
    IF imgs = <<>> THEN <<>>
    ELSE (IF Head(imgs).local_path = "" THEN <<>> ELSE <<Head(imgs).local_path>>)
             \o PathsInOrder(Tail(imgs))

\* The images of product p of the result held.
ImagesOf(p) == Deref(sv.heap, sv.result).products[p].images

Converted == sv.last.op = "convert_to_frontend_format" /\ sv.last.exc = "none"

\* C11: convert_to_frontend_format with use_paths=True gives, for every
\* product, thumbnails that are the local paths of its images that have
\* one, in image order, a mainImage that is the first thumbnail or the
\* empty string, and image_details with one entry per image, none with
\* base64 data; with use_paths=False thumbnails has the base64 data of
\* every image, one entry per image, and there is no image_details field.
C11_PathsOrBase64 ==
    Converted =>
        /\ Len(sv.last.out.v.products) = Len(sv.result.products)
        /\ \A p \in 1..Len(sv.result.products) :
               LET data == sv.last.out.v.products[p]
                   imgs == ImagesOf(p)
               IN  /\ data.mainImage = IF data.thumbnails = <<>> THEN ""
                                       ELSE data.thumbnails[1]
                   /\ sv.last.use_paths =>
                          /\ data.thumbnails = PathsInOrder(imgs)
                          /\ "image_details" \in DOMAIN data
                          /\ Len(data.image_details) = Len(imgs)
                          /\ \A k \in 1..Len(imgs) :
                                 /\ "base64_data" \notin DOMAIN data.image_details[k]
                                 /\ data.image_details[k].id = imgs[k].id
                                 /\ data.image_details[k].local_path # imgs[k].base64_data
                                 /\ data.image_details[k].filename # imgs[k].base64_data
                   /\ ~sv.last.use_paths =>
                          /\ Len(data.thumbnails) = Len(imgs)
                          /\ \A k \in 1..Len(imgs) :
                                 data.thumbnails[k] = imgs[k].base64_data
                          /\ "image_details" \notin DOMAIN data

\* A conversion with use_paths=True of a product whose first image has no
\* local path and whose second has one.
C11_Witness ==
    /\ Converted
    /\ sv.last.use_paths
    /\ Len(sv.result.products) = 2
    /\ Len(ImagesOf(1)) = 2
    /\ ImagesOf(1)[1].local_path = ""
    /\ ImagesOf(1)[2].local_path # ""
    /\ Len(sv.last.out.v.products[1].thumbnails) = 1
    /\ Len(sv.last.out.v.products[1].image_details) = 2

(***************************************************************************)
(* Part 8.  The main functions run from the command line                   *)
(* (enhanced_text_extractor.py, improved_combined_extractor.py,            *)
(* simple_text_extractor.py, text_main.py).                                *)
(*                                                                         *)
(* A run is followed statement by statement as far as the outside world    *)
(* sees it: the report, the construction of the extractor, the reading of  *)
(* the PDF, the requests and the writes.  The files on disk may change     *)
(* between any two steps of the run.                                       *)
(***************************************************************************)
MaxFsChanges == 1

Programs == {"enhanced", "combined", "simple", "text_only"}

GivenPdf == "data/a.pdf"

\* pdf_path of demonstrate_text_extraction
DemoPdf == "data/two.pdf"

\* sys.argv[1:]
Argvs == {<<>>, <<GivenPdf>>, <<GivenPdf, "out">>, <<"--demo">>, <<"--help">>}

\* config.json: not there, with the api_keys object, without it, with
\* api_keys that is no object, the empty object, not JSON.
Configs == {"absent", "api_keys", "no_api_keys", "api_keys_list", "empty", "not_json"}

\* load_config and the lines of text_main.main reading the keys from it:
\* the exception raised, "none" when the keys were read.
LoadConfig(config) ==
    CASE config = "not_json" -> "JSONDecodeError"
      [] config = "no_api_keys" -> "KeyError"
      [] config = "api_keys_list" -> "AttributeError"
      [] OTHER -> "none"

\* What a run does, in order, once the path was found to exist.
Steps(prog) ==
    CASE prog = "enhanced" ->
            <<"construct", "mkdir", "read", "ocr", "write", "llm", "write">>
      [] prog = "combined" ->
            <<"construct", "mkdir", "images", "read", "ocr", "llm", "write", "write">>
      [] prog = "simple" -> <<"construct", "read", "ocr", "mkdir", "write">>
      [] prog = "text_only" ->
            <<"mkdir", "construct", "read", "ocr", "llm", "mkdir", "write", "write",
              "write">>

\* A path check that lets every path through.
ExistsAlways(fs, pdf_path) == TRUE

\* Path(pdf_path).exists()
Exists(fs, pdf_path) == pdf_path \in fs

Event(e, path) == [e |-> e, path |-> path]

InitMain ==
    /\ \E prog \in Programs, argv \in Argvs, fs \in SUBSET {GivenPdf, DemoPdf},
          config \in Configs :
           /\ prog # "text_only" => config = "absent"
           /\ mn = [prog |-> prog, argv |-> argv, fs |-> fs, config |-> config,
                    pc |-> IF prog = "text_only" THEN "config" ELSE "args",
                    pdf_path |-> "", step |-> 0, exc |-> "none",
                    checked |-> "no", events |-> <<>>, changes |-> 0,
                    was_there |-> GivenPdf \in fs]
    /\ page = Idle /\ doc = Idle /\ gi = Idle /\ ex = Idle /\ fence = Idle
    /\ st = Idle /\ pipe = Idle /\ tx = Idle /\ sv = Idle

MainUnchanged == UNCHANGED <<imgVars, fence, st, pipe, tx, sv>>

\* text_main.main, lines 68-77
MainLoadConfig ==
    /\ mn.pc = "config"
    /\ mn' = IF LoadConfig(mn.config) = "none" THEN [mn EXCEPT !.pc = "args"]
             ELSE [mn EXCEPT !.pc = "raised", !.exc = LoadConfig(mn.config)]
    /\ MainUnchanged

\* The lines of main looking at sys.argv.
MainArgs ==
    /\ mn.pc = "args"
    /\ mn' = IF mn.prog = "text_only"
             THEN IF mn.argv = <<>> \/ mn.argv[1] = "--demo"
                  THEN [mn EXCEPT !.pc = "check", !.pdf_path = DemoPdf]
                  ELSE IF mn.argv[1] = "--help"
                  THEN [mn EXCEPT !.pc = "done",
                                  !.events = Append(@, Event("help", ""))]
                  ELSE [mn EXCEPT !.pc = "check", !.pdf_path = mn.argv[1]]
             ELSE IF mn.argv = <<>>
                  THEN [mn EXCEPT !.pc = "done",
                                  !.events = Append(@, Event("usage", ""))]
                  ELSE [mn EXCEPT !.pc = "check", !.pdf_path = mn.argv[1]]
    /\ MainUnchanged

\* if Path(pdf_path).exists(): ... else: logger.error(... not found ...)
MainCheck ==
    /\ mn.pc = "check"
    /\ mn' = IF Exists(mn.fs, mn.pdf_path)
             THEN [mn EXCEPT !.pc = "run", !.step = 1, !.checked = "existed"]
             ELSE [mn EXCEPT !.pc = "done", !.checked = "missing",
                             !.events = Append(@, Event("not_found", mn.pdf_path))]
    /\ MainUnchanged

MainStep ==
    IF mn.pc = "run" /\ mn.step <= Len(Steps(mn.prog))
    THEN Steps(mn.prog)[mn.step] ELSE "none"

\* The run after a step that returned, and after one that raised.
StepReturned(run, e) ==
    [run EXCEPT !.events = Append(@, Event(e, run.pdf_path)),
                !.step = @ + 1,
                !.pc = IF run.step = Len(Steps(run.prog)) THEN "done" ELSE "run"]

StepRaised(run, exc) == [run EXCEPT !.pc = "raised", !.exc = exc]

\* The constructor of the extractor: the clients refuse a missing key.
MainConstruct ==
    /\ MainStep = "construct"
    /\ \E ok \in BOOLEAN :
           mn' = IF ok THEN StepReturned(mn, "construct")
                 ELSE StepRaised(mn, "ClientError")
    /\ MainUnchanged

\* os.makedirs of the output directory
MainMakeDirs ==
    /\ MainStep = "mkdir"
    /\ \E ok \in BOOLEAN :
           mn' = IF ok THEN StepReturned(mn, "mkdir") ELSE StepRaised(mn, "OSError")
    /\ MainUnchanged

\* extract_images_from_pdf: fitz.open(pdf_path), and the image files
MainExtractImages ==
    /\ MainStep = "images"
    /\ \E ok \in BOOLEAN :
           mn' = IF ok /\ Exists(mn.fs, mn.pdf_path) THEN StepReturned(mn, "images")
                 ELSE StepRaised(mn, "FileNotFoundError")
    /\ MainUnchanged

\* pdf_path.read_bytes(), evaluated before the upload is called
MainReadBytes ==
    /\ MainStep = "read"
    /\ mn' = IF Exists(mn.fs, mn.pdf_path) THEN StepReturned(mn, "read")
             ELSE StepRaised(mn, "FileNotFoundError")
    /\ MainUnchanged

\* files.upload, files.get_signed_url and ocr.process: the request is made
\* whether it is answered or not.
MainOcr ==
    /\ MainStep = "ocr"
    /\ \E ok \in BOOLEAN :
           mn' = IF ok THEN StepReturned(mn, "ocr")
                 ELSE StepRaised([mn EXCEPT
                                     !.events = Append(@, Event("ocr", mn.pdf_path))],
                                 "APIError")
    /\ MainUnchanged

\* The LLM request and the code up to the next write; the request is made
\* whether the code after it raises or not.
MainLlm ==
    /\ MainStep = "llm"
    /\ \E ok \in BOOLEAN :
           mn' = IF ok THEN StepReturned(mn, "llm")
                 ELSE StepRaised([mn EXCEPT
                                     !.events = Append(@, Event("llm", mn.pdf_path))],
                                 "Exception")
    /\ MainUnchanged

\* A write of a text or JSON file
MainWrite ==
    /\ MainStep = "write"
    /\ \E ok \in BOOLEAN :
           mn' = IF ok THEN StepReturned(mn, "write") ELSE StepRaised(mn, "OSError")
    /\ MainUnchanged

\* Somebody else creates or removes a PDF while main runs.
FileSystemChange ==
    /\ mn.pc \notin {"done", "raised"}
    /\ mn.changes < MaxFsChanges
    /\ \E f \in {GivenPdf, DemoPdf} :
           mn' = [mn EXCEPT
                     !.fs = IF f \in @ THEN @ \ {f} ELSE @ \cup {f},
                     !.changes = @ + 1,
                     !.was_there = @ \/ f = GivenPdf]
    /\ MainUnchanged

NextMain ==
    \/ MainLoadConfig
    \/ MainArgs
    \/ MainCheck
    \/ MainConstruct
    \/ MainMakeDirs
    \/ MainExtractImages
    \/ MainReadBytes
    \/ MainOcr
    \/ MainLlm
    \/ MainWrite
    \/ FileSystemChange

SpecMain == InitMain /\ [][NextMain]_vars

(***************************************************************************)
(* Claims about main.                                                      *)
(***************************************************************************)
Effects == {"construct", "mkdir", "images", "read", "ocr", "llm", "write"}

EventsOf(kinds) == {i \in 1..Len(mn.events) : mn.events[i].e \in kinds}

\* A PDF path was given on the command line.
PathGiven ==
    /\ mn.argv # <<>>
    /\ mn.prog = "text_only" => mn.argv[1] \notin {"--demo", "--help"}

\* The run is over and the path given was on disk at no time of it.
EndedWithoutPdf ==
    /\ PathGiven
    /\ mn.pc \in {"done", "raised"}
    /\ ~mn.was_there

\* Every OCR request is for the path main checked and found.
OcrOnlyAfterCheck ==
    \A i \in EventsOf({"ocr"}) :
        mn.checked = "existed" /\ mn.events[i].path = mn.pdf_path

\* C12 as stated: a run of main with a path that does not exist reports
\* file not found and ends with no extractor made, no request and nothing
\* written; every OCR request is for a path that was there when checked.
C12_MissingPathReported ==
    /\ EndedWithoutPdf =>
           /\ mn.pc = "done"
           /\ EventsOf({"not_found"}) # {}
           /\ EventsOf(Effects) = {}
    /\ OcrOnlyAfterCheck

\* C12 amended: a run of main with a path that does not exist makes no
\* extractor and no request and writes nothing; it reports file not found
\* and returns, unless it is text_main with a config.json that is not JSON
\* or whose api_keys is missing or is no object, where main raises before
\* it looks at the path; every OCR request is for a path that was there
\* when checked.
C12_MissingPathNoEffects ==
    /\ EndedWithoutPdf =>
           /\ EventsOf(Effects) = {}
           /\ LoadConfig(mn.config) = "none" =>
                  /\ mn.pc = "done"
                  /\ EventsOf({"not_found"}) # {}
           /\ LoadConfig(mn.config) # "none" =>
                  /\ mn.pc = "raised"
                  /\ mn.exc = LoadConfig(mn.config)
                  /\ mn.events = <<>>
    /\ mn.checked = "missing" => EventsOf(Effects) = {}
    /\ OcrOnlyAfterCheck

\* A run with a path that was never there has reported it and returned.
C12_Witness ==
    /\ EndedWithoutPdf
    /\ mn.pc = "done"
    /\ mn.checked = "missing"
    /\ mn.events = <<Event("not_found", GivenPdf)>>

(***************************************************************************)
(* Part 9.  Further claims about extract_product_info_from_text.           *)
(***************************************************************************)
\* The line, stripped, starts and ends with "|".
StartsAndEndsWithBar(line) ==
    /\ StripWs(line) # <<>>
    /\ Head(StripWs(line)) = "|"
    /\ StripWs(line)[Len(StripWs(line))] = "|"

\* The stripped texts of the table lines of the text.
TableTexts ==
    {StripWs(tx.lines[n]) : n \in {k \in 1..Len(tx.lines) :
                                       StartsAndEndsWithBar(tx.lines[k])}}

\* The keys and values of a dict of the record, or of its feature list.
KeysAndValues(items) ==
    {items[n].key : n \in 1..Len(items)} \cup {items[n].value : n \in 1..Len(items)}

\* C13: no table line of the text is, in the returned record, the
\* product_name, the model_number, the brand, or a key or a value of a
\* specification or of a feature.
C13_TableLinesNeverContribute ==
    tx.pc = "done" =>
        \A t \in TableTexts :
            /\ tx.info.product_name # t
            /\ tx.info.model_number # t
            /\ tx.info.brand # t
            /\ t \notin KeysAndValues(tx.info.specifications)
            /\ t \notin KeysAndValues(tx.info.features)

\* The stripped line that was current in a pass of the loop.
LineAt(v) == StripWs(tx.lines[v.i + 1])

\* The pass came to the rules for the model number and the brand: the
\* line was not blank, not a table line and not taken by the bold name.
IsExamined(v) == v.branch \notin {"blank", "table", "bold_name"}

Examined == SelectSeq(tx.visits, IsExamined)

\* The pass had a line that yields a name: a bold token, else a leading
\* token.
YieldsName(v) ==
    /\ v.branch \notin {"blank", "table"}
    /\ BoldName(LineAt(v)).ok \/ FirstToken(LineAt(v)).ok

\* The name the claim tells: of the first pass with a line that yields
\* one, else of the fallback over all lines.
ClaimedName ==
    LET named == SelectSeq(tx.visits, YieldsName)
    IN  IF named # <<>>
        THEN IF BoldName(LineAt(named[1])).ok THEN BoldName(LineAt(named[1])).g1
             ELSE FirstToken(LineAt(named[1])).g1
        ELSE FallbackName(tx.lines)

\* The model number and the brand of the last pass of vs whose line
\* matches the pattern.
RECURSIVE LastModel(_)
LastModel(vs) ==
    IF vs = <<>> THEN <<>>
    ELSE IF ModelMatch(LineAt(vs[Len(vs)])).ok
    THEN ModelMatch(LineAt(vs[Len(vs)])).g1
    ELSE LastModel(SubSeq(vs, 1, Len(vs) - 1))

RECURSIVE LastBrand(_)
LastBrand(vs) ==
    IF vs = <<>> THEN <<>>
    ELSE IF BrandMatch(LineAt(vs[Len(vs)])).ok
    THEN BrandMatch(LineAt(vs[Len(vs)])).g1
    ELSE LastBrand(SubSeq(vs, 1, Len(vs) - 1))

ModelLines == SelectSeq(Examined, LAMBDA v : ModelMatch(LineAt(v)).ok)

BrandLines == SelectSeq(Examined, LAMBDA v : BrandMatch(LineAt(v)).ok)

\* C14: product_name is assigned at most once, with a non-empty value
\* that stays; it is the bold token, else the leading token, of the first
\* line that has one, else after the loop the first line longer than 10
\* characters that is not all digits.  model_number and brand are those
\* of the last line examined so far that matches their pattern.
C14_NameOnceModelAndBrandLast ==
    tx.pc \in {"loop", "done"} =>
        /\ Len(tx.names) <= 1
        /\ tx.names # <<>> => tx.names[1] # <<>>
        /\ tx.info.product_name = IF tx.names = <<>> THEN <<>> ELSE tx.names[1]
        /\ tx.info.model_number = LastModel(Examined)
        /\ tx.info.brand = LastBrand(Examined)
        /\ tx.pc = "done" => tx.info.product_name = ClaimedName

\* Two examined lines gave different model numbers and different brands,
\* and two lines yielded different names.
C14_Witness ==
    /\ tx.pc = "done"
    /\ Len(ModelLines) = 2
    /\ ModelMatch(LineAt(ModelLines[1])).g1 # ModelMatch(LineAt(ModelLines[2])).g1
    /\ Len(BrandLines) = 2
    /\ BrandMatch(LineAt(BrandLines[1])).g1 # BrandMatch(LineAt(BrandLines[2])).g1
    /\ Len(SelectSeq(tx.visits, YieldsName)) >= 2
    /\ tx.info.product_name # FirstToken(LineAt(Examined[Len(Examined)])).g1
    /\ tx.names = <<tx.info.product_name>>

\* The index after pass n of the loop: that of the next pass, or i.
IndexAfter(n) == IF n < Len(tx.visits) THEN tx.visits[n + 1].i ELSE tx.i

\* Every pass so far has moved i on by 1 or 2, i is within the lines or
\* just past them, and no line was the current line twice.
LoopAdvances ==
    tx.pc \in {"loop", "done"} =>
        /\ tx.i <= Len(tx.lines)
        /\ \A n \in 1..Len(tx.visits) :
               /\ IndexAfter(n) - tx.visits[n].i \in {1, 2}
               /\ tx.visits[n].branch \in
                      {"blank", "table", "bold_name", "fall_through"}
                      => IndexAfter(n) - tx.visits[n].i = 1
               /\ tx.visits[n].branch = "next_line"
                      => IndexAfter(n) - tx.visits[n].i = 2
        /\ \A m, n \in 1..Len(tx.visits) :
               m # n => tx.visits[m].i # tx.visits[n].i

\* C15: the loop over the lines ends for every text; every pass, whatever
\* its branch, moves the index i on by 1 or by 2 and never back, so no
\* line is the current line more than once.
C15_LoopTerminates == []LoopAdvances /\ <>(tx.pc = "done")

\* A run that is over after a pass of a feature rule that moved i by 2
\* and a later pass that moved it by 1.
C15_Witness ==
    /\ tx.pc = "done"
    /\ \E m, k \in 1..Len(tx.visits) :
           /\ m < k
           /\ tx.visits[m].branch \in {"feature_md", "feature_kv"}
           /\ IndexAfter(m) - tx.visits[m].i = 2
           /\ tx.visits[k].branch \in {"feature_md", "feature_kv", "fall_through"}
           /\ IndexAfter(k) - tx.visits[k].i = 1

====
